---- MODULE Spec2Model ----
(***************************************************************************)
(* Model of the schema-registry crate of kafka-delta-proto-ingest          *)
(* (crates/schema-registry/src: registry.rs, proto_schema.rs, arrow.rs,    *)
(* json.rs).                                                               *)
(*                                                                         *)
(* Spec      the SchemaRegistry cache: concurrent schemas_of calls over    *)
(*           the two DashMaps `schemas` and `cache` and the Shared fetch   *)
(*           futures stored in `cache`.                                    *)
(* SpecRefs  the body of one fetch future, step by step: the transitive    *)
(*           resolution of references (get_all_schemas_recursive) over     *)
(*           every bounded reference graph.                                *)
(* SpecTopic concurrent schemas_of_topic calls and the schemas_of calls    *)
(*           they delegate to.                                             *)
(* SpecProject  the projection of a compiled ProtoSchema to an Arrow       *)
(*           schema, over every bounded root message.                      *)
(* SpecDecode   the rendering of a payload as JSON (and the projection)    *)
(*           for the sample schemas, over every bounded payload.           *)
(***************************************************************************)
EXTENDS Integers, Sequences, FiniteSets, Bags, TLC

VARIABLES
    \* ---- SchemaRegistry (registry.rs:49-54) and its callers
    schemas,            \* DashMap<u32, Arc<Vec<String>>>: id -> memoized list
    cache,              \* DashMap<u32, SharedFutureSchema>: id -> future (index in futures)
    compiled_schemas,   \* DashMap<u32, Arc<ProtoSchema>>
    futures,            \* id -> the Shared futures created for it so far: [state, res]
    calls,              \* bag of schemas_of calls: [pc, id, handle, ret, after]
    raw,                \* ids filled by insert_raw_schemas before the calls
    \* ---- the remote registry and one run of a fetch future's body
    registry,           \* node -> its ordered references (RegisteredSchema.references)
    root,               \* the registered schema the fetch future asks for by id (0: none)
    stack,              \* call stack of get_all_schemas_recursive: frames [node, i]
    acc,                \* the `res: &mut Vec<String>` accumulator
    status,             \* "off" | "start" | "run" | "ok" | "err"
    fetched,            \* node -> number of registry fetches made for it in this run
    \* ---- callers of schemas_of_topic
    tcalls,             \* bag of schemas_of_topic calls: [pc, topic, subjects, id, ret]
    \* ---- one use of a compiled ProtoSchema (proto_schema.rs:14-68)
    proto_schema,       \* the ProtoSchema: [context, full_name]
    data,               \* the payload, as the Message Value Context::decode reads from it
    arrow,              \* what to_arrow_schema returned (<<>>: not called yet)
    result,             \* what decode_to_json returned (<<>>: not called yet)
    \* ---- callers of compiled_schema_of (registry.rs:90-94)
    ccalls,             \* bag of compiled_schema_of calls: [pc, id, ret]
    \* ---- the binary and its ingest task (src/main.rs, crates/ingest/src/lib.rs)
    token,              \* the CancellationToken: TRUE once cancelled
    ingest,             \* the spawned task: [variant, pc, message, received]
    main,               \* main: "off" | "select" | "join" | "done"
    \* ---- one compilation and one resolution (proto_schema.rs:26-42, proto_resolver.rs)
    raw_sources,        \* the sources given to try_compile_with_full_name
    unique_schemas,     \* the set handed to Context::parse (<<>>: not called yet)
    raw_schema,         \* the text given to ProtoResolver::resolve
    proto_info,         \* the ProtoInfo it returned (<<>>: not called yet)
    \* ---- one projection, call by call (arrow.rs:18-95)
    frames,             \* the message types whose fields are being projected
    projection          \* "off" | "start" | "run" | "ok" | "err" | "overflow"

regVars    == <<schemas, cache, compiled_schemas, futures, raw>>
refVars    == <<root, stack, acc, status, fetched>>
codecVars  == <<proto_schema, data, arrow, result>>
ingestVars == <<token, ingest, main>>
sourceVars == <<raw_sources, unique_schemas, raw_schema, proto_info>>
projVars   == <<frames, projection>>
extVars    == <<ccalls, ingestVars, sourceVars, projVars>>
auxVars    == <<tcalls, proto_schema, data, arrow, result, extVars>>
vars       == <<schemas, cache, compiled_schemas, futures, calls, raw,
                registry, root, stack, acc, status, fetched,
                tcalls, proto_schema, data, arrow, result,
                ccalls, token, ingest, main,
                raw_sources, unique_schemas, raw_schema, proto_info,
                frames, projection>>

(***************************************************************************)
(* Bounds                                                                  *)
(***************************************************************************)
\* number of schemas_of calls made in one run
NumCallers == 4
\* longest reference list of a registered schema
MaxRefs == 2
\* deepest recursion of get_all_schemas_recursive that is followed
MaxDepth == 4

\* registered schemas of the remote registry; ids name the first two
Nodes == {1, 2, 3}
Ids == {1, 2}
\* errors a registry call can answer with (SRCError values)
Errors == {"E1", "E2"}

(***************************************************************************)
(* Values                                                                  *)
(***************************************************************************)
\* RegisteredSchema.schema of a node: its raw text
Text(n) == <<"proto", n>>

\* Result<Arc<Vec<String>>, SchemaRegistryError>
Ok(l) == [ok |-> TRUE, list |-> l, err |-> "none"]
Err(e) == [ok |-> FALSE, list |-> <<>>, err |-> e]
NoRes == [ok |-> FALSE, list |-> <<>>, err |-> "pending"]

\* what insert_raw_schemas stored for an id (an arbitrary list, not the registry's)
RawList(id) == <<<<"raw", id>>>>

\* DashMap insert / remove on a map held as a function over its keys
MapInsert(m, k, v) == [x \in (DOMAIN m) \cup {k} |-> IF x = k THEN v ELSE m[x]]
MapRemove(m, k) == [x \in (DOMAIN m) \ {k} |-> m[x]]
EmptyMap == [x \in {} |-> 0]

\* the registry content the cache is exercised against: 1 -> [2, 3], 2 -> [3]
SampleRegistry == (1 :> <<2, 3>>) @@ (2 :> <<3>>) @@ (3 :> <<>>)

(***************************************************************************)
(* get_all_schema_references / get_all_schemas_recursive as a function     *)
(* (the value a fetch future resolves to when every registry call          *)
(* succeeds): for s in schema.references { recurse }; res.push(schema)     *)
(***************************************************************************)
\* variant of line 140 that puts the schema in front of the list
PushSchema_Front(res, n) == <<Text(n)>> \o res

\* variant of line 140 that pushes a text the list does not hold yet
PushSchema_Dedup(res, n) ==
    IF \E i \in 1..Len(res) : res[i] = Text(n) THEN res ELSE Append(res, Text(n))

\* line 140: res.push(schema.schema)
PushSchema(res, n) == Append(res, Text(n))

RECURSIVE get_all_schemas_recursive(_, _, _)
RECURSIVE for_each_reference(_, _, _, _)
for_each_reference(reg, refs, i, res) ==
    IF i > Len(refs) THEN res
    ELSE for_each_reference(reg, refs, i + 1,
                            get_all_schemas_recursive(reg, refs[i], res))

get_all_schemas_recursive(reg, n, res) ==
    PushSchema(for_each_reference(reg, reg[n], 1, res), n)

get_all_schema_references(reg, n) == get_all_schemas_recursive(reg, n, <<>>)

(***************************************************************************)
(* SchemaRegistry: schemas_of                                              *)
(*                                                                         *)
(* A call is a record [pc, id, handle, ret, after]: pc its position in     *)
(* schemas_of, id its argument, handle the clone of the Shared future it   *)
(* holds (an index into futures[id], 0 for none), ret its local `res`,     *)
(* which is what it returns.  Calls differ only by these fields, so the    *)
(* running and finished calls are kept as a bag.                           *)
(***************************************************************************)
Calls == BagToSet(calls)
\* one call moves from r to r2
Move(r, r2) == calls' = (calls (-) SetToBag({r})) (+) SetToBag({r2})

\* the Shared future a call holds
FutureOf(r) == futures[r.id][r.handle]
SetFuture(r, st, res) ==
    futures' = [futures EXCEPT ![r.id][r.handle] = [state |-> st, res |-> res]]

\* underlying registry fetches started so far for an id
FetchCount(id) ==
    Cardinality({f \in 1..Len(futures[id]) : futures[id][f].state # "created"})

\* some schemas_of(id) call has returned Ok
ReturnedOk(id) == \E d \in Calls : d.pc = "done" /\ d.id = id /\ d.ret.ok

\* a schemas_of(id) call is between its entry and its return
InProgress(id) ==
    \E r \in Calls : r.id = id /\ r.pc \in {"entry", "await", "insert", "remove"}

\* variants of the guard of line 82 with one conjunct wrong
ShouldInsert_NoOkCheck(res, id) == id \notin DOMAIN schemas
ShouldInsert_Negated(res, id) == res.ok /\ id \in DOMAIN schemas

\* line 82: res.is_ok() && !self.schemas.contains_key(&id)
ShouldInsert(res, id) == res.ok /\ id \notin DOMAIN schemas

\* no ProtoSchema is in use
CodecIdle == proto_schema = <<>> /\ data = <<>> /\ arrow = <<>> /\ result = <<>>
\* no task spawned, no source compiled or resolved, no projection under way
IngestIdle == token = FALSE /\ ingest = <<>> /\ main = "off"
SourceIdle ==
    raw_sources = <<>> /\ unique_schemas = <<>> /\ raw_schema = <<>> /\ proto_info = <<>>
ProjIdle == frames = <<>> /\ projection = "off"
ExtIdle == ccalls = EmptyBag /\ IngestIdle /\ SourceIdle /\ ProjIdle

\* lines 76-80: the call begins and reads the memoized map; a hit returns.
\* (after: whether an earlier call for the id had returned Ok when this began)
schemas_of_begin(id) ==
    IF id \in DOMAIN schemas
    THEN [pc |-> "done", id |-> id, handle |-> 0,
          ret |-> Ok(schemas[id]), after |-> ReturnedOk(id)]
    ELSE [pc |-> "entry", id |-> id, handle |-> 0,
          ret |-> NoRes, after |-> ReturnedOk(id)]

schemas_of(id) ==
    /\ BagCardinality(calls) < NumCallers
    /\ calls' = calls (+) SetToBag({schemas_of_begin(id)})
    /\ UNCHANGED <<regVars, registry, refVars, auxVars>>

\* lines 96-113: self.cache.entry(id), one atomic step on the in-flight map
get_schemas_by_shared_future ==
  \E r \in Calls :
    /\ r.pc = "entry"
    /\ IF r.id \in DOMAIN cache
       THEN /\ Move(r, [r EXCEPT !.pc = "await", !.handle = cache[r.id]])
            /\ UNCHANGED <<cache, futures>>
       ELSE /\ futures' = [futures EXCEPT ![r.id] =
                              Append(@, [state |-> "created", res |-> NoRes])]
            /\ cache' = MapInsert(cache, r.id, Len(futures[r.id]) + 1)
            /\ Move(r, [r EXCEPT !.pc = "await", !.handle = Len(futures[r.id]) + 1])
    /\ UNCHANGED <<schemas, compiled_schemas, raw, registry, refVars, auxVars>>

\* line 81, first poll of the Shared future by any clone: the lazy async block
\* starts and issues get_schema_by_id_and_type (line 102)
shared_future_start ==
  \E r \in Calls :
    /\ r.pc = "await"
    /\ FutureOf(r).state = "created"
    /\ SetFuture(r, "running", NoRes)
    /\ UNCHANGED <<schemas, cache, compiled_schemas, raw, calls, registry, refVars, auxVars>>

\* lines 101-107: the future's body runs to its end while a clone polls it
shared_future_resolve ==
  \E r \in Calls :
    /\ r.pc = "await"
    /\ FutureOf(r).state = "running"
    /\ \/ SetFuture(r, "ok", Ok(get_all_schema_references(registry, r.id)))
       \/ \E e \in Errors : SetFuture(r, "err", Err(e))
    /\ UNCHANGED <<schemas, cache, compiled_schemas, raw, calls, registry, refVars, auxVars>>

\* lines 81-82 and 86: the await yields the future's output; the guard of the
\* insert is evaluated; when it is false the call returns res
schemas_of_resume ==
  \E r \in Calls :
    /\ r.pc = "await"
    /\ FutureOf(r).state \in {"ok", "err"}
    /\ Move(r, [r EXCEPT
                  !.pc = IF ShouldInsert(FutureOf(r).res, r.id) THEN "insert" ELSE "done",
                  !.ret = FutureOf(r).res])
    /\ UNCHANGED <<regVars, registry, refVars, auxVars>>

\* line 83: self.schemas.insert(id, res.clone().unwrap())
schemas_insert ==
  \E r \in Calls :
    /\ r.pc = "insert"
    /\ schemas' = MapInsert(schemas, r.id, r.ret.list)
    /\ Move(r, [r EXCEPT !.pc = "remove"])
    /\ UNCHANGED <<cache, compiled_schemas, futures, raw, registry, refVars, auxVars>>

\* variant of line 84 that removes from the wrong map
cache_remove_wrong_map ==
  \E r \in Calls :
    /\ r.pc = "remove"
    /\ schemas' = MapRemove(schemas, r.id)
    /\ Move(r, [r EXCEPT !.pc = "done"])
    /\ UNCHANGED <<cache, compiled_schemas, futures, raw, registry, refVars, auxVars>>

\* lines 84 and 86: self.cache.remove(&id), then the call returns res
cache_remove ==
  \E r \in Calls :
    /\ r.pc = "remove"
    /\ cache' = MapRemove(cache, r.id)
    /\ Move(r, [r EXCEPT !.pc = "done"])
    /\ UNCHANGED <<schemas, compiled_schemas, futures, raw, registry, refVars, auxVars>>

\* line 81: the caller's future is dropped at its only suspension point; its
\* clone of the Shared future is dropped with it, nothing else runs
schemas_of_cancel ==
  \E r \in Calls :
    /\ r.pc = "await"
    /\ Move(r, [r EXCEPT !.pc = "cancelled", !.handle = 0])
    /\ UNCHANGED <<regVars, registry, refVars, auxVars>>

\* SchemaRegistry::new (lines 57-64), then insert_raw_schemas for the ids in raw
Init ==
    /\ raw \in SUBSET Ids
    /\ schemas = [id \in raw |-> RawList(id)]
    /\ cache = EmptyMap
    /\ compiled_schemas = EmptyMap
    /\ futures = [id \in Ids |-> <<>>]
    /\ calls = EmptyBag
    /\ registry = SampleRegistry
    /\ root = 0
    /\ stack = <<>>
    /\ acc = <<>>
    /\ status = "off"
    /\ fetched = [n \in Nodes |-> 0]
    /\ tcalls = EmptyBag
    /\ ExtIdle
    /\ CodecIdle

Next ==
    \/ \E id \in Ids : schemas_of(id)
    \/ get_schemas_by_shared_future
    \/ shared_future_start
    \/ shared_future_resolve
    \/ schemas_of_resume
    \/ schemas_insert
    \/ cache_remove
    \/ schemas_of_cancel

Spec == Init /\ [][Next]_vars

(***************************************************************************)
(* The body of a fetch future, step by step (lines 101-107 and 122-143):   *)
(* get_schema_by_id_and_type, then get_all_schemas_recursive, whose        *)
(* recursion is held as a stack of frames [node, i]: the schema being      *)
(* resolved and the index of its reference the for loop is at.             *)
(***************************************************************************)
\* the reference lists a registered schema can declare
RefLists == UNION {[1..k -> Nodes] : k \in 0..MaxRefs}

Top == stack[Len(stack)]
Fetched(n) == fetched' = [fetched EXCEPT ![n] = @ + 1]
\* the `?` of lines 127, 137 and 138: the error leaves every frame, and the
\* accumulator is dropped with get_all_schema_references
Fail ==
    /\ status' = "err"
    /\ stack' = <<>>
    /\ acc' = <<>>

\* lines 102-105: get_schema_by_id_and_type(id, ..).await, and on Ok the call
\* of get_all_schema_references (line 126: let mut res = Vec::new())
get_schema_by_id_and_type ==
    /\ status = "start"
    /\ \/ /\ status' = "run"
          /\ stack' = <<[node |-> root, i |-> 1]>>
          /\ acc' = <<>>
          /\ Fetched(root)
       \/ /\ Fail
          /\ UNCHANGED fetched
    /\ UNCHANGED <<regVars, calls, registry, root, auxVars>>

\* lines 136-138: the loop is at a reference: get_referenced_schema(..).await?
\* and the recursive call on the schema it returned
get_referenced_schema ==
    /\ status = "run"
    /\ Top.i <= Len(registry[Top.node])
    /\ Len(stack) < MaxDepth
    /\ \/ /\ stack' = Append(stack, [node |-> registry[Top.node][Top.i], i |-> 1])
          /\ Fetched(registry[Top.node][Top.i])
          /\ UNCHANGED <<acc, status>>
       \/ /\ Fail
          /\ UNCHANGED fetched
    /\ UNCHANGED <<regVars, calls, registry, root, auxVars>>

\* lines 140-141: the loop is over: res.push(schema.schema); Ok(()), back in
\* the caller's loop (its next reference), or, from the outermost call, line
\* 128: Ok(Arc::new(res))
push_schema ==
    /\ status = "run"
    /\ Top.i > Len(registry[Top.node])
    /\ acc' = PushSchema(acc, Top.node)
    /\ IF Len(stack) = 1
       THEN /\ stack' = <<>>
            /\ status' = "ok"
       ELSE /\ stack' = [SubSeq(stack, 1, Len(stack) - 1)
                            EXCEPT ![Len(stack) - 1].i = @ + 1]
            /\ UNCHANGED status
    /\ UNCHANGED <<regVars, calls, registry, root, fetched, auxVars>>

\* a registry with any reference graph within the bounds, and a fetch by id
InitRefs ==
    /\ registry \in [Nodes -> RefLists]
    /\ root \in Ids
    /\ stack = <<>>
    /\ acc = <<>>
    /\ status = "start"
    /\ fetched = [n \in Nodes |-> 0]
    /\ raw = {}
    /\ schemas = EmptyMap
    /\ cache = EmptyMap
    /\ compiled_schemas = EmptyMap
    /\ futures = [id \in Ids |-> <<>>]
    /\ calls = EmptyBag
    /\ tcalls = EmptyBag
    /\ ExtIdle
    /\ CodecIdle

NextRefs ==
    \/ get_schema_by_id_and_type
    \/ get_referenced_schema
    \/ push_schema

SpecRefs == InitRefs /\ [][NextRefs]_vars

(***************************************************************************)
(* Properties of the registry cache (checked under Spec)                   *)
(***************************************************************************)
\* the calls made for an id
CallsOf(id) == {r \in Calls : r.id = id}
\* the futures of an id that are in the given states
FuturesIn(id, states) ==
    {f \in 1..Len(futures[id]) : futures[id][f].state \in states}

\* C1: when all the schemas_of(i) calls made so far began while the memoized
\* map had no entry for i (each went on to the in-flight map), the fetcher
\* never failed and all have returned, the registry fetch for i was started
\* exactly once and all calls returned the same list.
C1_ConcurrentCallsFetchOnce ==
    \A id \in Ids :
        ( /\ CallsOf(id) # {}
          /\ \A r \in CallsOf(id) : r.pc = "done" /\ r.handle # 0 /\ r.ret.ok
          /\ FuturesIn(id, {"err"}) = {} )
        => /\ FetchCount(id) = 1
           /\ \A r1, r2 \in CallsOf(id) : r1.ret = r2.ret

\* C2: once an id is in the memoized map, no step starts a new underlying
\* fetch for it.
C2_NoFetchAfterMemoized ==
    [][\A id \in Ids :
          id \in DOMAIN schemas => FetchCount(id)' = FetchCount(id)]_vars

\* C3: a schemas_of(id) call that begins after an earlier schemas_of(id) call
\* has returned Ok returns the memoized list at once, holds no future, starts
\* no fetch and changes neither the memoized map nor the in-flight map.
C3_LateCallIsMemoHit ==
    /\ [](\A r \in Calls :
            r.after => /\ r.pc = "done"
                       /\ r.handle = 0
                       /\ r.id \in DOMAIN schemas
                       /\ r.ret = Ok(schemas[r.id]))
    /\ [][\A id \in Ids :
            (ReturnedOk(id) /\ BagCardinality(calls') = BagCardinality(calls) + 1
                /\ \E r \in BagToSet(calls') :
                      r.id = id /\ CopiesIn(r, calls') = CopiesIn(r, calls) + 1)
            => /\ schemas' = schemas
               /\ cache' = cache
               /\ futures' = futures]_vars

\* C3 witness: a call that began after a fetched call had returned Ok has
\* returned the memoized list.
C3_Witness ==
    \E r, d \in Calls :
        /\ r.after /\ r.pc = "done" /\ r.ret.ok
        /\ d.id = r.id /\ d.pc = "done" /\ d.handle # 0 /\ d.ret.ok
        /\ r.id \notin raw

\* C4: once the fetch of an id has failed and no schemas_of(id) call is in
\* progress, the in-flight map no longer holds the failed future (so the next
\* call starts a new fetch).
C4_FailedFetchEvicted ==
    \A id \in Ids :
        (id \in DOMAIN cache /\ futures[id][cache[id]].state = "err")
        => InProgress(id)

\* C5: every call joined to a future receives the future's output unchanged
\* (for a failed fetch: the same error for all of them), and the memoized map
\* holds an entry for an id only if insert_raw_schemas set it or a fetch for
\* the id succeeded with that list.
C5_ErrorFanOutNotMemoized ==
    /\ \A r \in Calls :
          (r.pc \in {"insert", "remove", "done"} /\ r.handle # 0)
          => /\ r.ret = FutureOf(r).res
             /\ FutureOf(r).state = "err" => (~r.ret.ok /\ r.ret.err \in Errors)
             /\ FutureOf(r).state = "err" => r.pc = "done"
    /\ \A id \in DOMAIN schemas :
          \/ id \in raw /\ schemas[id] = RawList(id)
          \/ \E f \in FuturesIn(id, {"ok"}) : schemas[id] = futures[id][f].res.list

\* C5 witness: two calls joined to the same failed future have both returned
\* its error and the id is not memoized.
C5_Witness ==
    \E r \in Calls :
        /\ r.pc = "done" /\ r.handle # 0
        /\ FutureOf(r).state = "err"
        /\ CopiesIn(r, calls) >= 2
        /\ r.id \notin DOMAIN schemas

\* C6: at any moment at most one fetch future per id is running unresolved.
C6_AtMostOneInFlight ==
    \A id \in Ids : Cardinality(FuturesIn(id, {"running"})) <= 1

\* C7: when an id is memoized and no schemas_of(id) call is in progress, the
\* in-flight map has no entry for the id.
C7_NoStaleInFlightEntry ==
    \A id \in Ids :
        (id \in DOMAIN schemas /\ ~InProgress(id)) => id \notin DOMAIN cache

\* C8: the memoized list of an id never changes once set, and every
\* schemas_of(id) call that has returned Ok returned exactly the list that is
\* memoized for the id.
C8_MemoizedListStable ==
    /\ [](\A r \in Calls :
            (r.pc = "done" /\ r.ret.ok)
            => (r.id \in DOMAIN schemas /\ r.ret.list = schemas[r.id]))
    /\ [][\A id \in DOMAIN schemas :
            id \in DOMAIN schemas' /\ schemas'[id] = schemas[id]]_vars

\* C8 witness: two calls for one id returned Ok from two different fetch
\* futures (the second future was installed after the first result had been
\* memoized).
C8_Witness ==
    \E r1, r2 \in Calls :
        /\ r1.id = r2.id /\ r1.handle # 0 /\ r2.handle # 0 /\ r1.handle # r2.handle
        /\ r1.pc = "done" /\ r2.pc = "done" /\ r1.ret.ok /\ r2.ret.ok

\* C9: after a call was cancelled, an unresolved future stays in the
\* in-flight map only while some call still holds a handle to it (otherwise
\* the entry is evicted).
C9_CancelEvictsEntry ==
    \A id \in DOMAIN cache :
        ( /\ \E r \in CallsOf(id) : r.pc = "cancelled"
          /\ futures[id][cache[id]].state \in {"created", "running"} )
        => \E r \in CallsOf(id) : r.pc = "await" /\ r.handle = cache[id]

(***************************************************************************)
(* Properties of the reference resolution (checked under SpecRefs)         *)
(***************************************************************************)
\* the registered schema a text of the list belongs to
NodeOf(text) == text[2]

\* post-order of the reference graph from n, references in declared order
RECURSIVE PostOrderOf(_, _), PostOrderOfAll(_, _)
PostOrderOfAll(reg, refs) ==
    IF refs = <<>> THEN <<>>
    ELSE PostOrderOf(reg, Head(refs)) \o PostOrderOfAll(reg, Tail(refs))
PostOrderOf(reg, n) == PostOrderOfAll(reg, reg[n]) \o <<Text(n)>>

\* C10: the list of a successful fetch is the post-order traversal of the
\* references in declared order: its last element is the primary schema's
\* text, and before every element come the texts of the schemas it
\* references, in the order it declares them.
C10_PostOrder ==
    status = "ok" =>
        /\ acc = PostOrderOf(registry, root)
        /\ acc[Len(acc)] = Text(root)
        /\ \A p \in 1..Len(acc) :
              LET refs == registry[NodeOf(acc[p])] IN
              /\ \A k \in 1..Len(refs) :
                    \E q \in 1..(p - 1) : acc[q] = Text(refs[k])
              /\ \A k, l \in 1..Len(refs) :
                    k < l => \E q1, q2 \in 1..(p - 1) :
                                /\ q1 < q2
                                /\ acc[q1] = Text(refs[k])
                                /\ acc[q2] = Text(refs[l])

\* C10 witness: a fetch over a graph in which the primary schema declares two
\* references, one of which references the other, has succeeded.
C10_Witness ==
    /\ status = "ok"
    /\ Len(registry[root]) = 2
    /\ \E k, l \in 1..2 :
          /\ registry[root][k] # registry[root][l]
          /\ registry[root][k] # root
          /\ registry[registry[root][k]] = <<registry[root][l]>>
    /\ Len(acc) = 4

\* the value a fetch future resolves to in Spec is the list the stepwise
\* resolution returns
FetchValueAgrees ==
    status = "ok" => acc = get_all_schema_references(registry, root)

(***************************************************************************)
(* schemas_of_topic (registry.rs:66-74): the subject lookup, the read of   *)
(* the memoized map and the delegation to schemas_of.  SpecTopic runs      *)
(* concurrent schemas_of_topic calls; the schemas_of calls in `calls` are  *)
(* the ones they delegate to.                                              *)
(***************************************************************************)
\* number of schemas_of_topic calls made in one run
NumTopicCalls == 3

Topics == {"t1", "t2", "t3"}

\* SubjectNameStrategy::TopicNameStrategy(topic, is_key): the subject
\* "<topic>-key" or "<topic>-value"
TopicNameStrategy(topic, is_key) ==
    <<topic, IF is_key THEN "-key" ELSE "-value">>

\* the subjects registered in the remote registry and the id of their latest
\* schema; topic t3 has no subject
SubjectIds ==
    (<<"t1", "-value">> :> 1) @@ (<<"t1", "-key">> :> 2) @@
    (<<"t2", "-value">> :> 2) @@ (<<"t2", "-key">> :> 1)

\* line 67 with the flag set: the key subject
Subject_Key(topic) == TopicNameStrategy(topic, TRUE)
\* line 67: let subject = TopicNameStrategy(topic.into(), false)
Subject(topic) == TopicNameStrategy(topic, FALSE)

\* lines 66-71: the call looks its subject up (one get_schema_by_subject),
\* returns the error of a failed lookup, and otherwise reads the memoized map
\* for the id it got; a hit returns, a miss goes on to line 72
schemas_of_topic(topic) ==
    /\ BagCardinality(tcalls) < NumTopicCalls
    /\ LET subject == Subject(topic) IN
       \/ \E e \in Errors :
            tcalls' = tcalls (+) SetToBag({
                [pc |-> "done", topic |-> topic, subjects |-> <<subject>>,
                 id |-> 0, ret |-> Err(e)]})
       \/ /\ subject \in DOMAIN SubjectIds
          /\ LET id == SubjectIds[subject] IN
             tcalls' = tcalls (+) SetToBag({
                IF id \in DOMAIN schemas
                THEN [pc |-> "done", topic |-> topic, subjects |-> <<subject>>,
                      id |-> id, ret |-> Ok(schemas[id])]
                ELSE [pc |-> "delegate", topic |-> topic, subjects |-> <<subject>>,
                      id |-> id, ret |-> NoRes]})
    /\ UNCHANGED <<regVars, calls, registry, refVars, codecVars, extVars>>

\* line 72: self.schemas_of(schema.id).await, whose result is the call's
schemas_of_topic_delegate ==
  \E t \in BagToSet(tcalls) :
    /\ t.pc = "delegate"
    /\ tcalls' = (tcalls (-) SetToBag({t})) (+)
                     SetToBag({[t EXCEPT !.pc = "delegated"]})
    /\ calls' = calls (+) SetToBag({schemas_of_begin(t.id)})
    /\ UNCHANGED <<regVars, registry, refVars, codecVars, extVars>>

NextTopic ==
    \/ \E topic \in Topics : schemas_of_topic(topic)
    \/ schemas_of_topic_delegate
    \/ get_schemas_by_shared_future
    \/ shared_future_start
    \/ shared_future_resolve
    \/ schemas_of_resume
    \/ schemas_insert
    \/ cache_remove
    \/ schemas_of_cancel

SpecTopic == Init /\ [][NextTopic]_vars

(***************************************************************************)
(* The compiled Type Context (protofish Context) as ProtoSchema holds it:  *)
(* message definitions with their fields in field-number order             *)
(* (MessageInfo::iter_fields) and enum definitions.                        *)
(***************************************************************************)
\* MessageField: number, name, field_type (with the type it refers to) and
\* multiplicity
MessageField(number, name, type, ref, multiplicity) ==
    [number |-> number, name |-> name, field_type |-> type, ref |-> ref,
     multiplicity |-> multiplicity]

\* the scalar ValueTypes of protofish
IntegerTypes == {"Int32", "Int64", "UInt32", "UInt64", "SInt32", "SInt64",
                 "Fixed32", "Fixed64", "SFixed32", "SFixed64"}
ScalarTypes == IntegerTypes \cup {"Double", "Float", "Bool", "String", "Bytes"}

\* the definitions of the imported and shared files of the sample schemas
\* (google/protobuf/timestamp.proto, duration.proto, and the nested types of
\* the test schemas)
CommonMessages ==
    ("google.protobuf.Timestamp" :> <<
        MessageField(1, "seconds", "Int64", "", "Single"),
        MessageField(2, "nanos", "Int32", "", "Single")>>) @@
    ("google.protobuf.Duration" :> <<
        MessageField(1, "seconds", "Int64", "", "Single"),
        MessageField(2, "nanos", "Int32", "", "Single")>>) @@
    ("example.Details" :> <<
        MessageField(1, "age", "UInt32", "", "Single"),
        MessageField(2, "since", "Message", "google.protobuf.Timestamp", "Single")>>) @@
    ("example.Contact" :> <<
        MessageField(1, "address", "String", "", "Single"),
        MessageField(2, "details", "Message", "example.Details", "Repeated")>>)

CommonEnums ==
    ("example.Status" :> ((0 :> "UNKNOWN") @@ (1 :> "ACTIVE") @@ (2 :> "INACTIVE")))

\* Context::parse of the deduplicated sources: the definitions of all of them
RECURSIVE ContextParse(_)
ContextParse(raw_schemas) ==
    IF raw_schemas = <<>>
    THEN [messages |-> <<>>, enums |-> <<>>]
    ELSE LET rest == ContextParse(Tail(raw_schemas)) IN
         [messages |-> Head(raw_schemas).messages @@ rest.messages,
          enums |-> Head(raw_schemas).enums @@ rest.enums]

\* proto_schema.rs:26-42: the context is parsed and the root name is stored
\* as given
try_compile_with_full_name(full_name, raw_schemas) ==
    [context |-> ContextParse(raw_schemas), full_name |-> full_name]

\* proto_schema.rs:21-24
try_compile(raw_schemas) == try_compile_with_full_name("", raw_schemas)

\* Context::get_message(full_name): whether a message of that name is defined
get_message(ctx, full_name) == full_name \in DOMAIN ctx.messages
\* Context::resolve_message / MessageInfo::iter_fields
iter_fields(ctx, full_name) == ctx.messages[full_name]
\* MessageInfo::get_field(number): the fields with that number (at most one)
get_field(ctx, full_name, number) ==
    {i \in 1..Len(ctx.messages[full_name]) :
        ctx.messages[full_name][i].number = number}

(***************************************************************************)
(* Projection to an Arrow schema (arrow.rs).  An ArrowField is             *)
(* [name, data_type, nullable, children]: children holds the element field *)
(* of a List and the fields of a Struct.                                   *)
(***************************************************************************)
ArrowField(name, data_type, nullable, children) ==
    [name |-> name, data_type |-> data_type, nullable |-> nullable,
     children |-> children]

Result_Ok(v) == [ok |-> TRUE, value |-> v, err |-> "none", text |-> <<>>]
Result_Err(e, text) == [ok |-> FALSE, value |-> <<>>, err |-> e, text |-> text]

\* arrow.rs:99-104
try_map_as_well_known_type(full_name) ==
    IF full_name = "google.protobuf.Timestamp"
    THEN "Timestamp(Millisecond, None)"
    ELSE "None"

\* arrow.rs:20-56 with fixed32 mapped to the unsigned type
ScalarDataType_Fixed32Unsigned(field_type) ==
    CASE field_type = "Double" -> "Float64"
      [] field_type = "Float" -> "Float32"
      [] field_type \in {"Int32", "SInt32", "SFixed32"} -> "Int32"
      [] field_type \in {"Int64", "SInt64", "Fixed64", "SFixed64"} -> "Int64"
      [] field_type \in {"UInt32", "Fixed32"} -> "UInt32"
      [] field_type = "UInt64" -> "UInt64"
      [] field_type = "Bool" -> "Boolean"
      [] field_type = "String" -> "Utf8"
      [] field_type = "Bytes" -> "Binary"
      [] field_type = "Enum" -> "Utf8"

\* arrow.rs:20-68: the DataType of every field type but Message
ScalarDataType(field_type) ==
    CASE field_type = "Double" -> "Float64"
      [] field_type = "Float" -> "Float32"
      [] field_type = "Int32" -> "Int32"
      [] field_type = "Int64" -> "Int64"
      [] field_type = "UInt32" -> "UInt32"
      [] field_type = "UInt64" -> "UInt64"
      [] field_type = "SInt32" -> "Int32"
      [] field_type = "SInt64" -> "Int64"
      [] field_type = "Fixed32" -> "Int32"
      [] field_type = "Fixed64" -> "Int64"
      [] field_type = "SFixed32" -> "Int32"
      [] field_type = "SFixed64" -> "Int64"
      [] field_type = "Bool" -> "Boolean"
      [] field_type = "String" -> "Utf8"
      [] field_type = "Bytes" -> "Binary"
      [] field_type = "Enum" -> "Utf8"

\* arrow.rs:85-94 with the element field nullable
WrapField_ElementNullable(info, data_type, children) ==
    IF info.multiplicity \in {"Repeated", "RepeatedPacked"}
    THEN ArrowField(info.name, "List", TRUE,
                    <<ArrowField("element", data_type, TRUE, children)>>)
    ELSE ArrowField(info.name, data_type, TRUE, children)

\* arrow.rs:19 and 85-94: a repeated field is a nullable List of a
\* non-nullable "element" field, any other field is nullable
WrapField(info, data_type, children) ==
    IF info.multiplicity \in {"Repeated", "RepeatedPacked"}
    THEN ArrowField(info.name, "List", TRUE,
                    <<ArrowField("element", data_type, FALSE, children)>>)
    ELSE ArrowField(info.name, data_type, TRUE, children)

\* arrow.rs:18-95
RECURSIVE message_field_to_arrow(_, _)
message_field_to_arrow(ctx, info) ==
    IF info.field_type = "Message"
    THEN IF try_map_as_well_known_type(info.ref) # "None"
         THEN WrapField(info, try_map_as_well_known_type(info.ref), <<>>)
         ELSE LET fs == iter_fields(ctx, info.ref) IN
              WrapField(info, "Struct",
                        [i \in 1..Len(fs) |-> message_field_to_arrow(ctx, fs[i])])
    ELSE WrapField(info, ScalarDataType(info.field_type), <<>>)

\* arrow.rs:9-16: one Arrow field per field of the root message
to_arrow_schema(ctx, full_name) ==
    LET fs == iter_fields(ctx, full_name) IN
    [i \in 1..Len(fs) |-> message_field_to_arrow(ctx, fs[i])]

\* proto_schema.rs:55-60: ProtoSchema::to_arrow_schema
ProtoSchema_to_arrow_schema(ps) ==
    IF get_message(ps.context, ps.full_name)
    THEN Result_Ok(to_arrow_schema(ps.context, ps.full_name))
    ELSE Result_Err("ArrowSchemaGenerationError",
                    <<"Proto message definition not found", ps.full_name>>)

(***************************************************************************)
(* SpecProject: one ProtoSchema compiled from the shared definitions and a *)
(* root message whose fields are any within the bounds, then projected.    *)
(***************************************************************************)
\* most fields of the generated root message
MaxRootFields == 2

\* the root names a ProtoSchema is compiled with: the generated message, the
\* empty name of try_compile, and a name no source defines
RootNames == {"example.M", "", "example.Missing"}

FieldNames == <<"f1", "f2", "f3", "f4">>

\* type, referenced type and multiplicity of a generated field
FieldKinds ==
    [field_type : ScalarTypes, ref : {""}, multiplicity : {"Single", "Repeated"}]
    \cup [field_type : {"Int32", "Fixed32", "Double", "Bool"}, ref : {""},
          multiplicity : {"RepeatedPacked"}]
    \cup [field_type : {"String", "Int64"}, ref : {""}, multiplicity : {"Optional"}]
    \cup [field_type : {"Enum"}, ref : {"example.Status"},
          multiplicity : {"Single", "Repeated"}]
    \cup [field_type : {"Message"},
          ref : {"google.protobuf.Timestamp", "google.protobuf.Duration",
                 "example.Details", "example.Contact"},
          multiplicity : {"Single", "Repeated"}]

\* the source that defines example.M with the given kinds of fields
RootSource(kinds) ==
    [messages |-> ("example.M" :>
        [i \in 1..Len(kinds) |->
            MessageField(i, FieldNames[i], kinds[i].field_type, kinds[i].ref,
                         kinds[i].multiplicity)]),
     enums |-> <<>>]

CommonSource == [messages |-> CommonMessages, enums |-> CommonEnums]

InitProject ==
    /\ \E k \in 0..MaxRootFields : \E kinds \in [1..k -> FieldKinds] :
       \E name \in RootNames :
         proto_schema = IF name = ""
                        THEN try_compile(<<RootSource(kinds), CommonSource>>)
                        ELSE try_compile_with_full_name(
                                 name, <<RootSource(kinds), CommonSource>>)
    /\ data = <<>>
    /\ arrow = <<>>
    /\ result = <<>>
    /\ tcalls = EmptyBag
    /\ ExtIdle
    /\ calls = EmptyBag
    /\ raw = {}
    /\ schemas = EmptyMap
    /\ cache = EmptyMap
    /\ compiled_schemas = EmptyMap
    /\ futures = [id \in Ids |-> <<>>]
    /\ registry = SampleRegistry
    /\ root = 0
    /\ stack = <<>>
    /\ acc = <<>>
    /\ status = "off"
    /\ fetched = [n \in Nodes |-> 0]

\* proto_schema.to_arrow_schema()
project ==
    /\ arrow = <<>>
    /\ arrow' = ProtoSchema_to_arrow_schema(proto_schema)
    /\ UNCHANGED <<regVars, calls, registry, refVars, tcalls, proto_schema, data, result, extVars>>

NextProject == project

SpecProject == InitProject /\ [][NextProject]_vars

(***************************************************************************)
(* compiled_schema_of (registry.rs:90-94).  SpecCompiled runs concurrent   *)
(* compiled_schema_of calls; the schemas_of calls in `calls` are the ones  *)
(* they make and that have not returned to them yet.  A call is a record   *)
(* [pc, id, ret, hit, after]: hit tells that its schemas_of found the id   *)
(* memoized, after that an earlier compiled_schema_of(id) had returned a   *)
(* compile error when it began.                                            *)
(***************************************************************************)
\* number of compiled_schema_of calls made in one run
NumCompiledCalls == 3

\* the texts the Protobuf parser rejects: the registered schema 1 and the
\* text inserted for id 2 by insert_raw_schemas
Malformed == {Text(1), <<"raw", 2>>}

\* ProtoSchema::try_compile(schemas.as_slice()) on texts of the registry:
\* the ProtoSchema of the list, or the error of Context::parse
CompileOutcome(list) ==
    IF \E i \in 1..Len(list) : list[i] \in Malformed
    THEN Err("CompileError")
    ELSE Ok(list)

\* some compiled_schema_of(id) call has returned a compile error
CompileFailed(id) ==
    \E c \in BagToSet(ccalls) :
        c.pc = "done" /\ c.id = id /\ c.ret = Err("CompileError")

\* what lines 91-93 return for the result of schemas_of
compiled_schema_of_return(res) ==
    IF res.ok THEN CompileOutcome(res.list) ELSE res

\* lines 90-93: the call of self.schemas_of(id).  When the id is memoized,
\* schemas_of returns at line 79 without suspending, and the call compiles
\* and returns in the same poll; otherwise it waits for its schemas_of call
compiled_schema_of(id) ==
    /\ BagCardinality(ccalls) < NumCompiledCalls
    /\ IF id \in DOMAIN schemas
       THEN /\ ccalls' = ccalls (+) SetToBag({
                   [pc |-> "done", id |-> id,
                    ret |-> compiled_schema_of_return(Ok(schemas[id])),
                    hit |-> TRUE, after |-> CompileFailed(id)]})
            /\ UNCHANGED calls
       ELSE /\ ccalls' = ccalls (+) SetToBag({
                   [pc |-> "schemas_of", id |-> id, ret |-> NoRes,
                    hit |-> FALSE, after |-> CompileFailed(id)]})
            /\ calls' = calls (+) SetToBag({schemas_of_begin(id)})
    /\ UNCHANGED <<regVars, registry, refVars, tcalls, codecVars,
                   ingestVars, sourceVars, projVars>>

\* lines 91-93 with the compiled schema stored in compiled_schemas
compiled_schema_of_compile_memoized ==
  \E c \in BagToSet(ccalls), r \in Calls :
    /\ c.pc = "schemas_of"
    /\ r.id = c.id
    /\ r.pc \in {"done", "cancelled"}
    /\ calls' = calls (-) SetToBag({r})
    /\ ccalls' = (ccalls (-) SetToBag({c})) (+) SetToBag({
           IF r.pc = "cancelled"
           THEN [c EXCEPT !.pc = "cancelled"]
           ELSE [c EXCEPT !.pc = "done", !.ret = compiled_schema_of_return(r.ret)]})
    /\ compiled_schemas' =
           IF r.pc = "done" /\ compiled_schema_of_return(r.ret).ok
           THEN MapInsert(compiled_schemas, c.id, r.ret.list)
           ELSE compiled_schemas
    /\ UNCHANGED <<schemas, cache, futures, raw, registry, refVars, tcalls,
                   codecVars, ingestVars, sourceVars, projVars>>

\* lines 91-93: the schemas_of call of a compiled_schema_of call has
\* returned (or the call was dropped with it): its error is returned by `?`,
\* its list is compiled, and the outcome of the compilation is returned
compiled_schema_of_compile ==
  \E c \in BagToSet(ccalls), r \in Calls :
    /\ c.pc = "schemas_of"
    /\ r.id = c.id
    /\ r.pc \in {"done", "cancelled"}
    /\ calls' = calls (-) SetToBag({r})
    /\ ccalls' = (ccalls (-) SetToBag({c})) (+) SetToBag({
           IF r.pc = "cancelled"
           THEN [c EXCEPT !.pc = "cancelled"]
           ELSE [c EXCEPT !.pc = "done", !.ret = compiled_schema_of_return(r.ret)]})
    /\ UNCHANGED <<regVars, registry, refVars, tcalls,
                   codecVars, ingestVars, sourceVars, projVars>>

NextCompiled ==
    \/ \E id \in Ids : compiled_schema_of(id)
    \/ compiled_schema_of_compile
    \/ get_schemas_by_shared_future
    \/ shared_future_start
    \/ shared_future_resolve
    \/ schemas_of_resume
    \/ schemas_insert
    \/ cache_remove
    \/ schemas_of_cancel

SpecCompiled == Init /\ [][NextCompiled]_vars

(***************************************************************************)
(* The projection call by call (arrow.rs:9-16 and 69-82).  SpecWalk        *)
(* compiles two message types whose fields are any within the bounds,      *)
(* message fields that refer to each other and to themselves included, and *)
(* follows the calls of message_field_to_arrow: `frames` holds, for every  *)
(* call that iterates the fields of a message type, the type and the field *)
(* it is at.  A call stack of MaxStack such calls is exhausted by the      *)
(* next one ("overflow": the process is ended, nothing is returned).       *)
(***************************************************************************)
\* most fields of a generated message type
MaxNested == 2
\* the nested calls of message_field_to_arrow the call stack holds
MaxStack == 4

\* type and referenced type of the fields of the generated message types
NestedKinds ==
    {[field_type |-> "Int32", ref |-> ""],
     [field_type |-> "Message", ref |-> "example.A"],
     [field_type |-> "Message", ref |-> "example.B"],
     [field_type |-> "Message", ref |-> "google.protobuf.Timestamp"]}

\* the source that defines example.A and example.B with the given fields
GraphSource(kinds_a, kinds_b) ==
    [messages |->
        ("example.A" :> [i \in 1..Len(kinds_a) |->
            MessageField(i, FieldNames[i], kinds_a[i].field_type, kinds_a[i].ref,
                         "Single")]) @@
        ("example.B" :> [i \in 1..Len(kinds_b) |->
            MessageField(i, FieldNames[i], kinds_b[i].field_type, kinds_b[i].ref,
                         "Repeated")]),
     enums |-> <<>>]

InitWalk ==
    /\ \E ka, kb \in 0..MaxNested :
       \E kinds_a \in [1..ka -> NestedKinds], kinds_b \in [1..kb -> NestedKinds] :
       \E name \in {"example.A", "example.Missing"} :
          proto_schema = try_compile_with_full_name(
                             name, <<GraphSource(kinds_a, kinds_b), CommonSource>>)
    /\ frames = <<>>
    /\ projection = "start"
    /\ data = <<>> /\ arrow = <<>> /\ result = <<>>
    /\ ccalls = EmptyBag /\ IngestIdle /\ SourceIdle
    /\ tcalls = EmptyBag
    /\ calls = EmptyBag
    /\ raw = {}
    /\ schemas = EmptyMap
    /\ cache = EmptyMap
    /\ compiled_schemas = EmptyMap
    /\ futures = [id \in Ids |-> <<>>]
    /\ registry = SampleRegistry
    /\ root = 0
    /\ stack = <<>>
    /\ acc = <<>>
    /\ status = "off"
    /\ fetched = [n \in Nodes |-> 0]

\* proto_schema.rs:55-60 and arrow.rs:9-16: the root message is looked up
\* and the loop over its fields begins
to_arrow_schema_call ==
    /\ projection = "start"
    /\ IF get_message(proto_schema.context, proto_schema.full_name)
       THEN /\ projection' = "run"
            /\ frames' = <<[full_name |-> proto_schema.full_name, i |-> 1]>>
       ELSE /\ projection' = "err"
            /\ frames' = <<>>
    /\ UNCHANGED <<regVars, calls, registry, refVars, tcalls, codecVars,
                   ccalls, ingestVars, sourceVars>>

\* the field the innermost loop is at
FieldAt(frame) == iter_fields(proto_schema.context, frame.full_name)[frame.i]

\* arrow.rs:18-82 with a message type that is being projected not entered
\* again
message_field_to_arrow_call_visited ==
    /\ projection = "run"
    /\ frames[Len(frames)].i <=
          Len(iter_fields(proto_schema.context, frames[Len(frames)].full_name))
    /\ LET info == FieldAt(frames[Len(frames)]) IN
       IF info.field_type = "Message"
          /\ try_map_as_well_known_type(info.ref) = "None"
          /\ \A k \in 1..Len(frames) : frames[k].full_name # info.ref
       THEN IF Len(frames) < MaxStack
            THEN /\ frames' = Append(frames, [full_name |-> info.ref, i |-> 1])
                 /\ UNCHANGED projection
            ELSE /\ frames' = <<>>
                 /\ projection' = "overflow"
       ELSE /\ frames' = [frames EXCEPT ![Len(frames)].i = @ + 1]
            /\ UNCHANGED projection
    /\ UNCHANGED <<regVars, calls, registry, refVars, tcalls, codecVars,
                   ccalls, ingestVars, sourceVars>>

\* arrow.rs:18-82: message_field_to_arrow for the field the loop is at: a
\* message field that is no well-known type starts the loop over the fields
\* of its type (lines 74-80), any other field is done
message_field_to_arrow_call ==
    /\ projection = "run"
    /\ frames[Len(frames)].i <=
          Len(iter_fields(proto_schema.context, frames[Len(frames)].full_name))
    /\ LET info == FieldAt(frames[Len(frames)]) IN
       IF info.field_type = "Message"
          /\ try_map_as_well_known_type(info.ref) = "None"
       THEN IF Len(frames) < MaxStack
            THEN /\ frames' = Append(frames, [full_name |-> info.ref, i |-> 1])
                 /\ UNCHANGED projection
            ELSE /\ frames' = <<>>
                 /\ projection' = "overflow"
       ELSE /\ frames' = [frames EXCEPT ![Len(frames)].i = @ + 1]
            /\ UNCHANGED projection
    /\ UNCHANGED <<regVars, calls, registry, refVars, tcalls, codecVars,
                   ccalls, ingestVars, sourceVars>>

\* arrow.rs:80-94 and 14-16: the loop over the fields of a type is over: the
\* Struct field is returned to the loop that asked for it, or the schema
\* to the caller of to_arrow_schema
message_field_to_arrow_return ==
    /\ projection = "run"
    /\ frames[Len(frames)].i >
          Len(iter_fields(proto_schema.context, frames[Len(frames)].full_name))
    /\ IF Len(frames) = 1
       THEN /\ frames' = <<>>
            /\ projection' = "ok"
       ELSE /\ frames' = [SubSeq(frames, 1, Len(frames) - 1)
                             EXCEPT ![Len(frames) - 1].i = @ + 1]
            /\ UNCHANGED projection
    /\ UNCHANGED <<regVars, calls, registry, refVars, tcalls, codecVars,
                   ccalls, ingestVars, sourceVars>>

NextWalk ==
    \/ to_arrow_schema_call
    \/ message_field_to_arrow_call
    \/ message_field_to_arrow_return

SpecWalk == InitWalk /\ [][NextWalk]_vars

\* the projection is synchronous code: it runs on until it returns or the
\* process ends
SpecWalkLive == SpecWalk /\ WF_vars(NextWalk)

(***************************************************************************)
(* Message Values (protofish decode::Value, FieldValue, MessageValue) and  *)
(* JSON values (serde_json::Value).  Every Value is a record of the same   *)
(* shape [tag, n, s, ref, fields, arr]: the variant, its integer, its      *)
(* text, the enum or message it refers to (the element kind of a Packed),  *)
(* the Field Values of a Message and the elements of a Packed.             *)
(***************************************************************************)
Value(tag, n, s, ref, fields, arr) ==
    [tag |-> tag, n |-> n, s |-> s, ref |-> ref, fields |-> fields, arr |-> arr]
Value_Int(tag, n) == Value(tag, n, "", "", <<>>, <<>>)
Value_Double(s) == Value("Double", 0, s, "", <<>>, <<>>)
Value_String(s) == Value("String", 0, s, "", <<>>, <<>>)
Value_Bytes == Value("Bytes", 0, "", "", <<>>, <<>>)
Value_Enum(enum_ref, n) == Value("Enum", n, "", enum_ref, <<>>, <<>>)
Value_Message(msg_ref, fields) == Value("Message", 0, "", msg_ref, fields, <<>>)
Value_Packed(kind, arr) == Value("Packed", 0, "", kind, <<>>, arr)
Value_Unknown == Value("Unknown", 0, "", "", <<>>, <<>>)
Value_Incomplete == Value("Incomplete", 0, "", "", <<>>, <<>>)
FieldValue(number, value) == [number |-> number, value |-> value]

\* serde_json::Value, in one shape [t, n, s, arr, obj]; an object is a
\* function from its keys
Json(t, n, s, arr, obj) == [t |-> t, n |-> n, s |-> s, arr |-> arr, obj |-> obj]
JsonNull == Json("null", 0, "", <<>>, <<>>)
JsonBool(n) == Json("bool", n, "", <<>>, <<>>)
JsonNumber(n) == Json("number", n, "", <<>>, <<>>)
JsonFloat(s) == Json("number", 0, s, <<>>, <<>>)
JsonString(s) == Json("string", 0, s, <<>>, <<>>)
JsonArray(arr) == Json("array", 0, "", arr, <<>>)
JsonObject(obj) == Json("object", 0, "", <<>>, obj)
\* serde_json::Map::insert
JsonInsert(obj, k, v) ==
    [n \in DOMAIN obj \cup {k} |-> IF n = k THEN v ELSE obj[n]]

\* The value ranges of the Rust integer types that carry the integer
\* variants.  TLC's integers are 32 bits wide, so the 32-bit types are
\* modelled 29 bits wide and the 64-bit types 31 bits wide: the eight bounds
\* keep the order they have in Rust.
I32_MIN == -(2^28)
I32_MAX == 2^28 - 1
U32_MAX == 2^29 - 1
I64_MIN == -(2^30)
I64_MAX == 2^30 - 1
U64_MAX == (2^30 - 1) + 2^30

\* protofish decode::Value: Int32, SInt32, SFixed32 hold an i32; Int64,
\* SInt64, SFixed64 an i64; UInt32, Fixed32 a u32; UInt64, Fixed64 a u64
ValueMin(tag) ==
    CASE tag \in {"Int32", "SInt32", "SFixed32"} -> I32_MIN
      [] tag \in {"Int64", "SInt64", "SFixed64"} -> I64_MIN
      [] tag \in {"UInt32", "Fixed32", "UInt64", "Fixed64"} -> 0
ValueMax(tag) ==
    CASE tag \in {"Int32", "SInt32", "SFixed32"} -> I32_MAX
      [] tag \in {"Int64", "SInt64", "SFixed64"} -> I64_MAX
      [] tag \in {"UInt32", "Fixed32"} -> U32_MAX
      [] tag \in {"UInt64", "Fixed64"} -> U64_MAX

\* Rust's integer division, which truncates toward zero
TruncDiv(a, b) == IF a >= 0 THEN a \div b ELSE -((-a) \div b)

(***************************************************************************)
(* Rendering a Message Value as JSON (json.rs)                             *)
(***************************************************************************)
\* json.rs:41-70: a google.protobuf.Timestamp whose first Field Value is an
\* Int64 and whose second is an Int32 is the number of milliseconds
try_decode_json_as_well_known_type(full_name, fields) ==
    IF full_name = "google.protobuf.Timestamp"
       /\ Len(fields) >= 2
       /\ fields[1].value.tag = "Int64"
       /\ fields[2].value.tag = "Int32"
    THEN [some |-> TRUE,
          json |-> JsonNumber(fields[1].value.n * 1000
                              + TruncDiv(fields[2].value.n, 1000000))]
    ELSE [some |-> FALSE, json |-> JsonNull]

\* json.rs:17-24 with every occurrence starting a new array
Assign_Replace(json, field_info, decoded) ==
    IF field_info.multiplicity = "Repeated"
    THEN JsonInsert(json, field_info.name, JsonArray(<<decoded>>))
    ELSE JsonInsert(json, field_info.name, decoded)

\* json.rs:25-30 with a singular field that keeps the value its key holds
Assign_KeepFirst(json, field_info, decoded) ==
    IF field_info.multiplicity = "Repeated"
    THEN IF field_info.name \in DOMAIN json /\ json[field_info.name].t = "array"
         THEN JsonInsert(json, field_info.name,
                         JsonArray(Append(json[field_info.name].arr, decoded)))
         ELSE JsonInsert(json, field_info.name, JsonArray(<<decoded>>))
    ELSE IF field_info.name \in DOMAIN json
         THEN json
         ELSE JsonInsert(json, field_info.name, decoded)

\* json.rs:16-30: a Repeated field is appended to the array at its key (a
\* new array when the key holds none); any other field is inserted
Assign(json, field_info, decoded) ==
    IF field_info.multiplicity = "Repeated"
    THEN IF field_info.name \in DOMAIN json /\ json[field_info.name].t = "array"
         THEN JsonInsert(json, field_info.name,
                         JsonArray(Append(json[field_info.name].arr, decoded)))
         ELSE JsonInsert(json, field_info.name, JsonArray(<<decoded>>))
    ELSE JsonInsert(json, field_info.name, decoded)

\* json.rs:108-163: the elements of a Packed value, in order
PackedElement(kind, n) == IF kind = "Bool" THEN JsonBool(n) ELSE JsonNumber(n)

RECURSIVE decode_field_to_json(_, _)
RECURSIVE decode_message_to_json(_, _, _, _, _)

\* json.rs:72-168
decode_field_to_json(ctx, field) ==
    LET v == field.value IN
    CASE v.tag = "Bool" -> Result_Ok(JsonBool(v.n))
      [] v.tag \in IntegerTypes -> Result_Ok(JsonNumber(v.n))
      [] v.tag \in {"Float", "Double"} ->
            Result_Ok(IF v.s = "NaN" THEN JsonNull ELSE JsonFloat(v.s))
      [] v.tag = "String" -> Result_Ok(JsonString(v.s))
      [] v.tag = "Bytes" ->
            Result_Err("DecodeJsonError", <<"Bytes field not supported">>)
      [] v.tag = "Enum" ->
            IF v.n \in DOMAIN ctx.enums[v.ref]
            THEN Result_Ok(JsonString(ctx.enums[v.ref][v.n]))
            ELSE Result_Err("DecodeJsonError", <<"Enum value not found">>)
      [] v.tag = "Message" ->
            LET well_known_type ==
                    try_decode_json_as_well_known_type(v.ref, v.fields) IN
            IF well_known_type.some
            THEN Result_Ok(well_known_type.json)
            ELSE decode_message_to_json(ctx, v.ref, v.fields, 1, <<>>)
      [] v.tag = "Packed" ->
            Result_Ok(JsonArray([i \in 1..Len(v.arr) |->
                                    PackedElement(v.ref, v.arr[i])]))
      [] v.tag = "Incomplete" ->
            Result_Err("DecodeJsonError", <<"Incomplete field not supported">>)
      [] v.tag = "Unknown" ->
            Result_Err("DecodeJsonError", <<"Unknown field not supported">>)

\* json.rs:8-38: the loop over value.fields from its i-th Field Value on,
\* with the JSON object built so far
decode_message_to_json(ctx, full_name, fields, i, json) ==
    IF i > Len(fields)
    THEN Result_Ok(JsonObject(json))
    ELSE LET field_value == fields[i]
             found == get_field(ctx, full_name, field_value.number)
         IN
         IF found = {}
         THEN Result_Err("DecodeJsonError",
                         <<"Missing field number", field_value.number, full_name>>)
         ELSE LET field_info == ctx.messages[full_name][CHOOSE j \in found : TRUE]
                  decoded == decode_field_to_json(ctx, field_value)
              IN
              IF ~decoded.ok
              THEN decoded
              ELSE decode_message_to_json(ctx, full_name, fields, i + 1,
                       Assign(json, field_info, decoded.value))

\* proto_schema.rs:62-68 with a root name that is not looked up: the payload
\* is read as a message without fields
ProtoSchema_decode_to_json_NoLookup(ps, value) ==
    IF get_message(ps.context, ps.full_name)
    THEN decode_message_to_json(ps.context, ps.full_name, value, 1, <<>>)
    ELSE Result_Ok(JsonObject(<<>>))

\* proto_schema.rs:62-68: ProtoSchema::decode_to_json, on the Message Value
\* that Context::decode reads from the payload
ProtoSchema_decode_to_json(ps, value) ==
    IF get_message(ps.context, ps.full_name)
    THEN decode_message_to_json(ps.context, ps.full_name, value, 1, <<>>)
    ELSE Result_Err("DecodeJsonError",
                    <<"Proto message definition not found", ps.full_name>>)

(***************************************************************************)
(* SpecDecode: a ProtoSchema compiled from the sample sources, one payload *)
(* within the bounds, and the two operations on it.                        *)
(***************************************************************************)
\* most Field Values at the root of a payload
MaxFields == 3

\* the root messages of the sample sources: the shapes of the test schemas
\* (scalars, an enum, repeated messages, a packed field, bytes; Timestamps
\* and a nested message) and one field of every integer type
SampleMessages ==
    ("example.Person" :> <<
        MessageField(1, "id", "Int32", "", "Single"),
        MessageField(2, "name", "String", "", "Optional"),
        MessageField(3, "status", "Enum", "example.Status", "Single"),
        MessageField(5, "contacts", "Message", "example.Contact", "Repeated"),
        MessageField(6, "ids", "Int32", "", "RepeatedPacked"),
        MessageField(9, "blob", "Bytes", "", "Single"),
        MessageField(10, "tags", "String", "", "Repeated")>>) @@
    ("example.Event" :> <<
        MessageField(1, "created", "Message", "google.protobuf.Timestamp", "Single"),
        MessageField(2, "stamps", "Message", "google.protobuf.Timestamp", "Repeated"),
        MessageField(3, "details", "Message", "example.Details", "Single"),
        MessageField(4, "label", "String", "", "Single")>>) @@
    ("example.Numbers" :> <<
        MessageField(1, "i32", "Int32", "", "Single"),
        MessageField(2, "i64", "Int64", "", "Single"),
        MessageField(3, "u32", "UInt32", "", "Single"),
        MessageField(4, "u64", "UInt64", "", "Single"),
        MessageField(5, "s32", "SInt32", "", "Single"),
        MessageField(6, "s64", "SInt64", "", "Single"),
        MessageField(7, "f32", "Fixed32", "", "Single"),
        MessageField(8, "f64", "Fixed64", "", "Single"),
        MessageField(9, "sf32", "SFixed32", "", "Single"),
        MessageField(10, "sf64", "SFixed64", "", "Single"),
        MessageField(11, "pf32", "Fixed32", "", "RepeatedPacked"),
        MessageField(12, "score", "Double", "", "Single")>>)

SampleSource == [messages |-> SampleMessages, enums |-> <<>>]

\* a google.protobuf.Timestamp (seconds, nanos) as Context::decode reads it
\* from a proto3 encoding, which leaves out a component that is zero
Timestamp(seconds, nanos) ==
    Value_Message("google.protobuf.Timestamp",
        (IF seconds = 0 THEN <<>>
         ELSE <<FieldValue(1, Value_Int("Int64", seconds))>>) \o
        (IF nanos = 0 THEN <<>>
         ELSE <<FieldValue(2, Value_Int("Int32", nanos))>>))

\* a field number no sample message defines, as Context::decode reads it
UndefinedField == FieldValue(99, Value_Unknown)

\* the Field Values a payload of example.Person is made of
PersonFields == {
    FieldValue(1, Value_Int("Int32", 7)),
    FieldValue(1, Value_Incomplete),
    FieldValue(3, Value_Enum("example.Status", 1)),
    FieldValue(3, Value_Enum("example.Status", 9)),
    FieldValue(5, Value_Message("example.Contact",
        <<FieldValue(1, Value_String("home")),
          FieldValue(2, Value_Message("example.Details",
              <<FieldValue(1, Value_Int("UInt32", 31))>>)),
          FieldValue(2, Value_Message("example.Details", <<>>))>>)),
    FieldValue(5, Value_Message("example.Contact",
        <<FieldValue(1, Value_String("work"))>>)),
    FieldValue(6, Value_Packed("Int32", <<1, 2, 3>>)),
    FieldValue(6, Value_Int("Int32", 4)),
    FieldValue(9, Value_Bytes),
    FieldValue(10, Value_String("x")),
    FieldValue(10, Value_String("y")),
    UndefinedField }

\* the Field Values a payload of example.Event is made of
EventFields == {
    FieldValue(1, Timestamp(17, 99000000)),
    FieldValue(1, Timestamp(0, 99000000)),
    FieldValue(1, Timestamp(17, 0)),
    FieldValue(1, Timestamp(0, 0)),
    FieldValue(1, Value_Message("google.protobuf.Timestamp",
        <<FieldValue(1, Value_Int("Int64", 17)),
          FieldValue(2, Value_Int("Int32", 99000000)), UndefinedField>>)),
    FieldValue(1, Value_Message("google.protobuf.Timestamp",
        <<FieldValue(2, Value_Int("Int32", 99000000)),
          FieldValue(1, Value_Int("Int64", 17))>>)),
    FieldValue(2, Timestamp(1, 2000000)),
    FieldValue(2, Timestamp(2, 0)),
    FieldValue(3, Value_Message("example.Details",
        <<FieldValue(1, Value_Int("UInt32", 30)),
          FieldValue(2, Timestamp(5, 1000000))>>)),
    FieldValue(3, Value_Message("example.Details",
        <<FieldValue(1, Value_Int("UInt32", 30)), UndefinedField>>)),
    FieldValue(4, Value_String("e")),
    UndefinedField }

\* the Field Values a payload of example.Numbers is made of: each integer
\* field with the least and the greatest value of its Rust type
NumbersFields ==
    UNION {{FieldValue(SampleMessages["example.Numbers"][i].number,
                Value_Int(SampleMessages["example.Numbers"][i].field_type,
                          ValueMin(SampleMessages["example.Numbers"][i].field_type))),
            FieldValue(SampleMessages["example.Numbers"][i].number,
                Value_Int(SampleMessages["example.Numbers"][i].field_type,
                          ValueMax(SampleMessages["example.Numbers"][i].field_type)))} :
           i \in 1..10} \cup
    {FieldValue(11, Value_Packed("Fixed32", <<0, U32_MAX>>)),
     FieldValue(12, Value_Double("1.5")),
     FieldValue(12, Value_Double("NaN"))}

\* the payloads read under each root name
Payloads(full_name) ==
    CASE full_name = "example.Person" ->
            UNION {[1..k -> PersonFields] : k \in 0..MaxFields}
      [] full_name = "example.Event" ->
            UNION {[1..k -> EventFields] : k \in 0..MaxFields}
      [] full_name = "example.Numbers" ->
            UNION {[1..k -> NumbersFields] : k \in 0..(MaxFields - 1)}
      [] OTHER ->
            UNION {[1..k -> PersonFields] : k \in 0..1}

InitDecode ==
    /\ \E name \in {"example.Person", "example.Event", "example.Numbers",
                     "", "example.Missing"} :
         /\ proto_schema = IF name = ""
                           THEN try_compile(<<SampleSource, CommonSource>>)
                           ELSE try_compile_with_full_name(
                                    name, <<SampleSource, CommonSource>>)
         /\ data \in Payloads(name)
    /\ arrow = <<>>
    /\ result = <<>>
    /\ tcalls = EmptyBag
    /\ ExtIdle
    /\ calls = EmptyBag
    /\ raw = {}
    /\ schemas = EmptyMap
    /\ cache = EmptyMap
    /\ compiled_schemas = EmptyMap
    /\ futures = [id \in Ids |-> <<>>]
    /\ registry = SampleRegistry
    /\ root = 0
    /\ stack = <<>>
    /\ acc = <<>>
    /\ status = "off"
    /\ fetched = [n \in Nodes |-> 0]

\* proto_schema.decode_to_json(data)
decode_to_json ==
    /\ result = <<>>
    /\ result' = ProtoSchema_decode_to_json(proto_schema, data)
    /\ UNCHANGED <<regVars, calls, registry, refVars, tcalls, proto_schema, data, arrow, extVars>>

NextDecode ==
    \/ decode_to_json
    \/ project

SpecDecode == InitDecode /\ [][NextDecode]_vars

(***************************************************************************)
(* The binary and its ingest task (src/main.rs, start_ingest in            *)
(* src/lib.rs and in crates/ingest/src/lib.rs, process_message in          *)
(* crates/ingest/src/ingest.rs).  `ingest` is the spawned task: which of   *)
(* the two start_ingest it runs, its position, the message it is           *)
(* processing and the number of messages and receive errors it has dealt   *)
(* with (counted up to MaxReceived).                                       *)
(***************************************************************************)
\* the count of messages dealt with stops growing here
MaxReceived == 2

\* the two start_ingest functions: of the root crate (messages are logged)
\* and of the ingest crate (messages are processed)
Variants == {"kafka_delta_proto_ingest", "ingest"}

\* the type context and the message type the decoder reads payloads against
IngestContext == ContextParse(<<SampleSource, CommonSource>>)
IngestFullName == "example.Person"

\* Kafka messages: without a payload, with a payload the decoder rejects, with
\* one it has no context for, and with one it reads as these Field Values
Message(payload, fields) == [payload |-> payload, fields |-> fields]
MessageFields ==
    {FieldValue(1, Value_Int("Int32", 7)), FieldValue(2, Value_String("n")),
     UndefinedField}
Messages ==
    {Message(p, <<>>) : p \in {"none", "invalid", "no_context"}} \cup
    {Message("valid", f) : f \in UNION {[1..k -> MessageFields] : k \in 0..2}}

\* ingest.rs:50-58 and deserialize.rs:48-50: the payload, or EmptyPayload;
\* the decoded value with its name, or the decoder's error
deserialize_message(message) ==
    CASE message.payload = "none" -> Result_Err("EmptyPayload", <<>>)
      [] message.payload = "invalid" -> Result_Err("ProtoDecodeError", <<>>)
      [] message.payload = "no_context" -> Result_Err("ProtoDecodeContextError", <<>>)
      [] OTHER -> Result_Ok([full_name |-> IngestFullName, fields |-> message.fields])

\* ingest.rs:31-48: a failed deserialization is logged; of a deserialized
\* value, get_message(..).unwrap() and, for every Field Value,
\* info.get_field(v.number).unwrap() panic on None; then Ok(())
process_message_outcome(message) ==
    LET value == deserialize_message(message) IN
    IF ~value.ok THEN "logged"
    ELSE IF ~get_message(IngestContext, value.value.full_name) THEN "panic"
    ELSE IF \E i \in 1..Len(value.value.fields) :
                get_field(IngestContext, value.value.full_name,
                          value.value.fields[i].number) = {}
         THEN "panic"
         ELSE "ok"

Received == IF ingest.received < MaxReceived THEN ingest.received + 1 ELSE MaxReceived

\* lib.rs:69-82 (and crates/ingest/src/lib.rs:86): the consumer is created
\* and subscribed, and the processor built, or start_ingest returns Err
start_ingest_setup ==
    /\ ingest # <<>>
    /\ ingest.pc = "setup"
    /\ \/ ingest' = [ingest EXCEPT !.pc = "select"]
       \/ ingest' = [ingest EXCEPT !.pc = "returned_err"]
    /\ UNCHANGED <<token, main>>
    /\ UNCHANGED <<regVars, calls, registry, refVars, tcalls, codecVars,
                   ccalls, sourceVars, projVars>>

\* the recv branch of the select with Ok(message): the root crate logs the
\* message, the ingest crate calls process_message
consumer_recv_ok ==
    /\ ingest # <<>>
    /\ ingest.pc = "select"
    /\ IF ingest.variant = "ingest"
       THEN \E m \in Messages :
                ingest' = [ingest EXCEPT !.pc = "process", !.message = m]
       ELSE ingest' = [ingest EXCEPT !.received = Received]
    /\ UNCHANGED <<token, main>>
    /\ UNCHANGED <<regVars, calls, registry, refVars, tcalls, codecVars,
                   ccalls, sourceVars, projVars>>

\* the recv branch of the select with Err(e): the error is logged
consumer_recv_err ==
    /\ ingest # <<>>
    /\ ingest.pc = "select"
    /\ ingest' = [ingest EXCEPT !.received = Received]
    /\ UNCHANGED <<token, main>>
    /\ UNCHANGED <<regVars, calls, registry, refVars, tcalls, codecVars,
                   ccalls, sourceVars, projVars>>

\* crates/ingest/src/lib.rs:95: ingest_processor.process_message(message).await?
process_message ==
    /\ ingest # <<>>
    /\ ingest.pc = "process"
    /\ ingest' =
          IF process_message_outcome(ingest.message) = "panic"
          THEN [ingest EXCEPT !.pc = "panicked"]
          ELSE [ingest EXCEPT !.pc = "select", !.message = <<>>,
                              !.received = Received]
    /\ UNCHANGED <<token, main>>
    /\ UNCHANGED <<regVars, calls, registry, refVars, tcalls, codecVars,
                   ccalls, sourceVars, projVars>>

\* the cancelled branch of the select: return Ok(())
select_cancelled ==
    /\ ingest # <<>>
    /\ ingest.pc = "select"
    /\ token
    /\ ingest' = [ingest EXCEPT !.pc = "returned_ok"]
    /\ UNCHANGED <<token, main>>
    /\ UNCHANGED <<regVars, calls, registry, refVars, tcalls, codecVars,
                   ccalls, sourceVars, projVars>>

\* main.rs:36-38: start_ingest has returned; cancellation.cancel(); res
task_cancel ==
    /\ ingest # <<>>
    /\ ingest.pc \in {"returned_ok", "returned_err"}
    /\ token' = TRUE
    /\ ingest' = [ingest EXCEPT
                     !.pc = IF ingest.pc = "returned_ok" THEN "finished_ok"
                            ELSE "finished_err"]
    /\ UNCHANGED main
    /\ UNCHANGED <<regVars, calls, registry, refVars, tcalls, codecVars,
                   ccalls, sourceVars, projVars>>

\* main.rs:43-46: Ctrl-C arrives while main waits
ctrl_c ==
    /\ main = "select"
    /\ token' = TRUE
    /\ main' = "join"
    /\ UNCHANGED ingest
    /\ UNCHANGED <<regVars, calls, registry, refVars, tcalls, codecVars,
                   ccalls, sourceVars, projVars>>

\* main.rs:47-50: the token is cancelled while main waits
main_cancelled ==
    /\ main = "select"
    /\ token
    /\ main' = "join"
    /\ UNCHANGED <<token, ingest>>
    /\ UNCHANGED <<regVars, calls, registry, refVars, tcalls, codecVars,
                   ccalls, sourceVars, projVars>>

\* main.rs:53-58: res.await? yields the task's result, or the JoinError of
\* a task that panicked, with which main returns
main_join ==
    /\ main = "join"
    /\ ingest.pc \in {"finished_ok", "finished_err", "panicked"}
    /\ main' = IF ingest.pc = "panicked" THEN "failed" ELSE "done"
    /\ UNCHANGED <<token, ingest>>
    /\ UNCHANGED <<regVars, calls, registry, refVars, tcalls, codecVars,
                   ccalls, sourceVars, projVars>>

\* main.rs:32-40: a fresh token and the spawned task, at the start of
\* either start_ingest
InitIngest ==
    /\ token = FALSE
    /\ \E v \in Variants :
          ingest = [variant |-> v, pc |-> "setup", message |-> <<>>, received |-> 0]
    /\ main = "select"
    /\ ccalls = EmptyBag /\ SourceIdle /\ ProjIdle
    /\ tcalls = EmptyBag /\ CodecIdle
    /\ calls = EmptyBag
    /\ raw = {}
    /\ schemas = EmptyMap
    /\ cache = EmptyMap
    /\ compiled_schemas = EmptyMap
    /\ futures = [id \in Ids |-> <<>>]
    /\ registry = SampleRegistry
    /\ root = 0
    /\ stack = <<>>
    /\ acc = <<>>
    /\ status = "off"
    /\ fetched = [n \in Nodes |-> 0]

NextIngest ==
    \/ start_ingest_setup
    \/ consumer_recv_ok
    \/ consumer_recv_err
    \/ process_message
    \/ select_cancelled
    \/ task_cancel
    \/ ctrl_c
    \/ main_cancelled
    \/ main_join

SpecIngest == InitIngest /\ [][NextIngest]_vars

\* The runtime polls a task that can run, so each step of the task and of
\* main is taken when it stays possible; tokio::select! picks at random
\* among the branches that are ready, so the cancelled branch, ready every
\* time the loop comes back to the select, is taken at some time.  Ctrl-C
\* and the messages of the consumer are under no such condition.
SpecIngestLive ==
    /\ InitIngest
    /\ [][NextIngest]_vars
    /\ WF_vars(start_ingest_setup)
    /\ WF_vars(process_message)
    /\ SF_vars(select_cancelled)
    /\ WF_vars(task_cancel)
    /\ WF_vars(main_cancelled)
    /\ WF_vars(main_join)

(***************************************************************************)
(* ProtoResolver (proto_resolver.rs).  A text is the sequence of its       *)
(* characters; the lexer is the one logos derives from the Token enum:     *)
(* whitespace is skipped, and at any other character the longest match of  *)
(* the Package, Message and Import patterns is the token, or else the      *)
(* single character.                                                       *)
(***************************************************************************)
\* most declarations of a text given to the resolver
MaxStatements == 3

Whitespace == {" ", "\n"}
\* the characters of the texts that the class [a-zA-z0-9\\.\\_] of the
\* Package pattern holds, and those of the class of the Import pattern
NameChars == {"a", "b", "c", "e", "g", "i", "k", "l", "m", "o", "p", "r",
              "s", "t", "u", "f", "w", ".", "_", "3"}
PathChars == NameChars \cup {"/"}

KwPackage == <<"p", "a", "c", "k", "a", "g", "e">>
KwMessage == <<"m", "e", "s", "s", "a", "g", "e">>
KwImport == <<"i", "m", "p", "o", "r", "t">>

\* the text from a position on begins with the word
StartsWith(text, pos, word) ==
    /\ pos + Len(word) - 1 <= Len(text)
    /\ SubSeq(text, pos, pos + Len(word) - 1) = word
\* the character at a position ("" past the end)
At(text, pos) == IF pos <= Len(text) THEN text[pos] ELSE ""
\* number of characters of the class from a position on
RECURSIVE Run(_, _, _)
Run(text, pos, class) ==
    IF pos <= Len(text) /\ text[pos] \in class
    THEN 1 + Run(text, pos + 1, class)
    ELSE 0

\* proto_resolver.rs:36, 39, 42: the length of the match of each pattern at
\* a position (0: no match)
PackageLen(text, pos) ==
    LET w == Run(text, pos + 7, Whitespace)
        n == Run(text, pos + 7 + w, NameChars)
    IN IF StartsWith(text, pos, KwPackage) /\ w >= 1 /\ n >= 1
          /\ At(text, pos + 7 + w + n) = ";"
       THEN 7 + w + n + 1 ELSE 0
MessageLen(text, pos) ==
    LET w == Run(text, pos + 7, Whitespace)
        n == Run(text, pos + 7 + w, NameChars \ {"."})
    IN IF StartsWith(text, pos, KwMessage) /\ w >= 1 /\ n >= 1
       THEN 7 + w + n ELSE 0
ImportLen(text, pos) ==
    LET w == Run(text, pos + 6, Whitespace)
        n == Run(text, pos + 6 + w + 1, PathChars)
    IN IF StartsWith(text, pos, KwImport) /\ w >= 1
          /\ At(text, pos + 6 + w) = "\"" /\ n >= 1
          /\ At(text, pos + 6 + w + 1 + n) = "\""
          /\ At(text, pos + 6 + w + 2 + n) = ";"
       THEN 6 + w + 1 + n + 2 ELSE 0

\* str::trim
RECURSIVE Trim(_)
Trim(str) ==
    IF str = <<>> THEN str
    ELSE IF Head(str) \in Whitespace THEN Trim(Tail(str))
    ELSE IF str[Len(str)] \in Whitespace THEN Trim(SubSeq(str, 1, Len(str) - 1))
    ELSE str

\* slice[from..to] of Rust (from counted from 0, to excluded)
Slice(str, from, to) == SubSeq(str, from + 1, to)

\* line 86: slice[8..slice.len() - 2].trim()
ImportPath(slice) == Trim(Slice(slice, 8, Len(slice) - 2))

\* line 82: slice[8..slice.len() - 1].trim()
PackageName(slice) == Trim(Slice(slice, 8, Len(slice) - 1))

\* proto_resolver.rs:69-99: ResolverHelper::new, from a position of the text
\* on, with the package (<<>>: None, <<name>>: Some) and the imports so far
RECURSIVE ResolverHelper_new(_, _, _, _)
ResolverHelper_new(text, pos, package, imports) ==
    IF pos > Len(text)
    THEN [package |-> package, imports |-> imports]
    ELSE IF text[pos] \in Whitespace
    THEN ResolverHelper_new(text, pos + 1, package, imports)
    ELSE IF PackageLen(text, pos) > 0
    THEN ResolverHelper_new(text, pos + PackageLen(text, pos),
             <<PackageName(SubSeq(text, pos, pos + PackageLen(text, pos) - 1))>>,
             imports)
    ELSE IF ImportLen(text, pos) > 0
    THEN ResolverHelper_new(text, pos + ImportLen(text, pos), package,
             Append(imports,
                    ImportPath(SubSeq(text, pos, pos + ImportLen(text, pos) - 1))))
    ELSE IF MessageLen(text, pos) > 0
    THEN ResolverHelper_new(text, pos + MessageLen(text, pos), package, imports)
    ELSE ResolverHelper_new(text, pos + 1, package, imports)

\* proto_resolver.rs:23-29: ProtoResolver::resolve
ProtoResolver_resolve(text) == Result_Ok(ResolverHelper_new(text, 1, <<>>, <<>>))

(***************************************************************************)
(* SpecResolve: one text made of up to MaxStatements declarations, one per *)
(* line, and its resolution.  raw_schema holds the declarations; TextOf is *)
(* the text the resolver is given.                                         *)
(***************************************************************************)
Statement(kind, gap, arg, commented) ==
    [kind |-> kind, gap |-> gap, arg |-> arg, commented |-> commented]

\* import declarations with one or two blanks or a line break before the
\* quoted path, one of them in a comment; package declarations; other lines
Statements ==
    {Statement("import", gap, path, FALSE) :
        gap \in {<<" ">>, <<" ", " ">>, <<"\n">>},
        path \in {<<"a", ".", "p">>, <<"b", "/", "c">>}} \cup
    {Statement("import", <<" ">>, <<"a", ".", "p">>, TRUE)} \cup
    {Statement("package", gap, <<"m", ".", "e">>, FALSE) :
        gap \in {<<" ">>, <<" ", " ">>}} \cup
    {Statement("package", <<" ">>, <<"k">>, FALSE)} \cup
    {Statement("other", <<>>, <<"m", "e", "s", "s", "a", "g", "e", " ", "t", " ", "{">>, FALSE),
     Statement("other", <<>>, <<"}">>, FALSE)}

\* the line of a declaration
LineOf(st) ==
    (IF st.commented THEN <<"/", "/", " ">> ELSE <<>>) \o
    (CASE st.kind = "import" ->
            KwImport \o st.gap \o <<"\"">> \o st.arg \o <<"\"", ";">>
       [] st.kind = "package" -> KwPackage \o st.gap \o st.arg \o <<";">>
       [] OTHER -> st.arg) \o <<"\n">>

RECURSIVE TextOf(_)
TextOf(sts) == IF sts = <<>> THEN <<>> ELSE LineOf(Head(sts)) \o TextOf(Tail(sts))

InitResolve ==
    /\ raw_schema \in UNION {[1..k -> Statements] : k \in 0..MaxStatements}
    /\ proto_info = <<>>
    /\ raw_sources = <<>> /\ unique_schemas = <<>>
    /\ ccalls = EmptyBag /\ IngestIdle /\ ProjIdle
    /\ tcalls = EmptyBag /\ CodecIdle
    /\ calls = EmptyBag
    /\ raw = {}
    /\ schemas = EmptyMap
    /\ cache = EmptyMap
    /\ compiled_schemas = EmptyMap
    /\ futures = [id \in Ids |-> <<>>]
    /\ registry = SampleRegistry
    /\ root = 0
    /\ stack = <<>>
    /\ acc = <<>>
    /\ status = "off"
    /\ fetched = [n \in Nodes |-> 0]

\* ProtoResolver::resolve(raw_schema)
resolve ==
    /\ proto_info = <<>>
    /\ proto_info' = ProtoResolver_resolve(TextOf(raw_schema))
    /\ UNCHANGED <<raw_sources, unique_schemas, raw_schema>>
    /\ UNCHANGED <<regVars, calls, registry, refVars, tcalls, codecVars,
                   ccalls, ingestVars, projVars>>

SpecResolve == InitResolve /\ [][resolve]_vars

(***************************************************************************)
(* The sources of a compilation (proto_schema.rs:26-35): what              *)
(* try_compile_with_full_name hands to Context::parse.  SpecSources takes  *)
(* up to MaxSources of the sample texts, in any order and with             *)
(* repetitions.                                                            *)
(***************************************************************************)
\* most sources given to one compilation
MaxSources == 3

TimestampPath ==
    <<"g", "o", "o", "g", "l", "e", "/", "p", "r", "o", "t", "o", "b", "u", "f", "/",
      "t", "i", "m", "e", "s", "t", "a", "m", "p", ".", "p", "r", "o", "t", "o">>
WrappersPath ==
    <<"g", "o", "o", "g", "l", "e", "/", "p", "r", "o", "t", "o", "b", "u", "f", "/",
      "w", "r", "a", "p", "p", "e", "r", "s", ".", "p", "r", "o", "t", "o">>

\* the declarations of the bundled text of google/protobuf/timestamp.proto
\* and of google/protobuf/wrappers.proto
TimestampFile ==
    <<Statement("package", <<" ">>, <<"g", ".", "p">>, FALSE),
      Statement("other", <<>>, <<"m", "e", "s", "s", "a", "g", "e", " ", "t", " ", "{">>, FALSE),
      Statement("other", <<>>, <<"}">>, FALSE)>>
WrappersFile ==
    <<Statement("package", <<" ">>, <<"g", ".", "p">>, FALSE),
      Statement("other", <<>>, <<"m", "e", "s", "s", "a", "g", "e", " ", "w", " ", "{">>, FALSE),
      Statement("other", <<>>, <<"}">>, FALSE)>>

\* the table of well-known files: import path -> bundled text
WellKnownFiles ==
    (TimestampPath :> TextOf(TimestampFile)) @@ (WrappersPath :> TextOf(WrappersFile))

\* add_common_files with only the first import looked up
RECURSIVE add_common_files_first(_, _)
add_common_files_first(imports, list) ==
    IF imports # <<>> /\ Head(imports) \in DOMAIN WellKnownFiles
    THEN Append(list, WellKnownFiles[Head(imports)])
    ELSE list

\* add_common_files(imports, &mut schemas): the bundled text of every import
\* that is a key of the table is pushed, in the order of the imports
RECURSIVE add_common_files(_, _)
add_common_files(imports, list) ==
    IF imports = <<>> THEN list
    ELSE add_common_files(Tail(imports),
             IF Head(imports) \in DOMAIN WellKnownFiles
             THEN Append(list, WellKnownFiles[Head(imports)])
             ELSE list)

\* proto_schema.rs:27-32: the loop over raw_schemas from its i-th on
RECURSIVE CollectSchemas(_, _, _)
CollectSchemas(raw_schemas, i, list) ==
    IF i > Len(raw_schemas) THEN list
    ELSE LET schema_info == ProtoResolver_resolve(raw_schemas[i]).value IN
         CollectSchemas(raw_schemas, i + 1,
             Append(add_common_files(schema_info.imports, list), raw_schemas[i]))

\* proto_schema.rs:34: schemas.into_iter().collect::<HashSet<String>>()
UniqueSchemas(raw_schemas) ==
    LET list == CollectSchemas(raw_schemas, 1, <<>>) IN
    {list[i] : i \in 1..Len(list)}

\* the sample sources: one that imports the Timestamp file, one that imports
\* a file the table does not hold, one that imports the Timestamp file
\* twice and the wrappers file, one without imports, the text of the
\* Timestamp file itself, and one that imports it after two blanks
SampleTexts ==
    {<<Statement("package", <<" ">>, <<"m", ".", "e">>, FALSE),
       Statement("import", <<" ">>, TimestampPath, FALSE),
       Statement("other", <<>>, <<"}">>, FALSE)>>,
     <<Statement("import", <<" ">>, <<"a", ".", "p">>, FALSE)>>,
     <<Statement("import", <<" ">>, TimestampPath, FALSE),
       Statement("import", <<" ">>, TimestampPath, FALSE),
       Statement("import", <<"\n">>, WrappersPath, FALSE)>>,
     <<Statement("package", <<" ">>, <<"k">>, FALSE)>>,
     TimestampFile,
     <<Statement("import", <<" ", " ">>, TimestampPath, FALSE)>>}

InitSources ==
    /\ raw_sources \in UNION {[1..k -> SampleTexts] : k \in 0..MaxSources}
    /\ unique_schemas = <<>>
    /\ raw_schema = <<>> /\ proto_info = <<>>
    /\ ccalls = EmptyBag /\ IngestIdle /\ ProjIdle
    /\ tcalls = EmptyBag /\ CodecIdle
    /\ calls = EmptyBag
    /\ raw = {}
    /\ schemas = EmptyMap
    /\ cache = EmptyMap
    /\ compiled_schemas = EmptyMap
    /\ futures = [id \in Ids |-> <<>>]
    /\ registry = SampleRegistry
    /\ root = 0
    /\ stack = <<>>
    /\ acc = <<>>
    /\ status = "off"
    /\ fetched = [n \in Nodes |-> 0]

\* proto_schema.rs:27-35: the set handed to Context::parse
collect_unique_schemas ==
    /\ unique_schemas = <<>>
    /\ unique_schemas' =
          [set |-> UniqueSchemas([i \in 1..Len(raw_sources) |-> TextOf(raw_sources[i])])]
    /\ UNCHANGED <<raw_sources, raw_schema, proto_info>>
    /\ UNCHANGED <<regVars, calls, registry, refVars, tcalls, codecVars,
                   ccalls, ingestVars, projVars>>

SpecSources == InitSources /\ [][collect_unique_schemas]_vars

(***************************************************************************)
(* Properties of schemas_of_topic (checked under SpecTopic)                *)
(***************************************************************************)
\* the value subject of a topic, "<topic>-value"
ValueSubject(topic) == <<topic, "-value">>
TopicCalls == BagToSet(tcalls)
\* the step is the lookup of a schemas_of_topic call failing
LookupFails ==
    \E t \in BagToSet(tcalls') :
        /\ CopiesIn(t, tcalls') = CopiesIn(t, tcalls) + 1
        /\ t.pc = "done" /\ ~t.ret.ok

\* C11: every schemas_of_topic call makes one subject lookup, for the value
\* subject of its topic; a call that returned a list returned the list
\* memoized for the id of that subject, which is what schemas_of returns for
\* it, and a call that went on went on to schemas_of for that id; a failed
\* lookup returns its error, starts no fetch by id and changes neither map.
C11_TopicLookup ==
    /\ [](\A t \in TopicCalls :
            /\ t.subjects = <<ValueSubject(t.topic)>>
            /\ t.ret.ok =>
                 /\ t.id = SubjectIds[ValueSubject(t.topic)]
                 /\ t.id \in DOMAIN schemas
                 /\ t.ret = Ok(schemas[t.id])
            /\ t.pc \in {"delegate", "delegated"} =>
                 t.id = SubjectIds[ValueSubject(t.topic)]
            /\ (t.pc = "done" /\ ~t.ret.ok) =>
                 t.id = 0 /\ t.ret.err \in Errors)
    /\ [][LookupFails => UNCHANGED <<schemas, cache, futures, calls>>]_vars

\* a call answered from the memoized map, one that delegated and whose
\* schemas_of call returned, and one whose lookup failed
C11_Witness ==
    /\ \E t \in TopicCalls : t.pc = "done" /\ t.ret.ok /\ t.id \notin raw
    /\ \E t \in TopicCalls : t.pc = "delegated"
    /\ \E t \in TopicCalls : t.pc = "done" /\ ~t.ret.ok

(***************************************************************************)
(* Properties of the projection (checked under SpecProject)                *)
(***************************************************************************)
\* the field is nullable unless it is the element of a List, and so on below
RECURSIVE NullabilityHolds(_, _)
NullabilityHolds(f, is_element) ==
    /\ f.nullable = ~is_element
    /\ \A i \in 1..Len(f.children) :
          NullabilityHolds(f.children[i], f.data_type = "List")

\* C18: in every Arrow schema the projection returns, every field at every
\* depth is nullable, except the element field of a List, which is not.
C18_Nullability ==
    (arrow # <<>> /\ arrow.ok) =>
        \A i \in 1..Len(arrow.value) : NullabilityHolds(arrow.value[i], FALSE)

\* a projected List of Structs that hold a List of Structs
C18_Witness ==
    /\ arrow # <<>> /\ arrow.ok
    /\ \E i \in 1..Len(arrow.value) :
         LET f == arrow.value[i] IN
         /\ f.data_type = "List"
         /\ f.children[1].data_type = "Struct"
         /\ \E j \in 1..Len(f.children[1].children) :
               f.children[1].children[j].data_type = "List"

\* the mapping table of the scalar field types and of enums
MappingTable ==
    ("Double" :> "Float64") @@ ("Float" :> "Float32") @@
    ("Int32" :> "Int32") @@ ("SInt32" :> "Int32") @@
    ("Fixed32" :> "Int32") @@ ("SFixed32" :> "Int32") @@
    ("Int64" :> "Int64") @@ ("SInt64" :> "Int64") @@
    ("Fixed64" :> "Int64") @@ ("SFixed64" :> "Int64") @@
    ("UInt32" :> "UInt32") @@ ("UInt64" :> "UInt64") @@
    ("Bool" :> "Boolean") @@ ("String" :> "Utf8") @@
    ("Bytes" :> "Binary") @@ ("Enum" :> "Utf8")

\* the Arrow field f is the one the claim gives the proto field
RECURSIVE FieldMatches(_, _, _)
FieldMatches(ctx, info, f) ==
    LET repeated == info.multiplicity \in {"Repeated", "RepeatedPacked"}
        inner == IF f.data_type = "List" /\ Len(f.children) = 1
                 THEN f.children[1] ELSE f
    IN
    /\ f.name = info.name
    /\ repeated <=> f.data_type = "List"
    /\ repeated => (Len(f.children) = 1 /\ inner.name = "element")
    /\ IF info.field_type # "Message"
       THEN inner.data_type = MappingTable[info.field_type] /\ inner.children = <<>>
       ELSE IF info.ref = "google.protobuf.Timestamp"
       THEN inner.data_type = "Timestamp(Millisecond, None)" /\ inner.children = <<>>
       ELSE /\ inner.data_type = "Struct"
            /\ Len(inner.children) = Len(ctx.messages[info.ref])
            /\ \A j \in 1..Len(inner.children) :
                  FieldMatches(ctx, ctx.messages[info.ref][j], inner.children[j])

\* C19: the projection returns one Arrow field per field of the root message,
\* in order, with the proto field's name and the type of the mapping table
\* (enum: Utf8; google.protobuf.Timestamp: Timestamp(Millisecond, no zone);
\* any other message: Struct of its projected fields), in a List exactly when
\* the field is Repeated or RepeatedPacked.
C19_MappingTable ==
    (arrow # <<>> /\ arrow.ok) =>
        LET ctx == proto_schema.context
            fs == ctx.messages[proto_schema.full_name]
        IN /\ Len(arrow.value) = Len(fs)
           /\ \A i \in 1..Len(fs) : FieldMatches(ctx, fs[i], arrow.value[i])

\* a projected root with a repeated Timestamp field and a Duration field
C19_Witness ==
    /\ arrow # <<>> /\ arrow.ok
    /\ Len(arrow.value) = 2
    /\ arrow.value[1].data_type = "List"
    /\ arrow.value[1].children[1].data_type = "Timestamp(Millisecond, None)"
    /\ arrow.value[2].data_type = "Struct"
    /\ proto_schema.context.messages[proto_schema.full_name][2].ref
          = "google.protobuf.Duration"

(***************************************************************************)
(* Properties of the decoder (checked under SpecDecode)                    *)
(***************************************************************************)
Decoded == result # <<>> /\ result.ok
Projected == arrow # <<>> /\ arrow.ok
RootFields == proto_schema.context.messages[proto_schema.full_name]

\* the value range of an Arrow integer type
ArrowMin(data_type) ==
    CASE data_type = "Int32" -> I32_MIN
      [] data_type = "Int64" -> I64_MIN
      [] data_type \in {"UInt32", "UInt64"} -> 0
ArrowMax(data_type) ==
    CASE data_type = "Int32" -> I32_MAX
      [] data_type = "Int64" -> I64_MAX
      [] data_type = "UInt32" -> U32_MAX
      [] data_type = "UInt64" -> U64_MAX

\* the JSON numbers at the key of an Arrow field of integer type, or in the
\* array at it, or below it in a Struct, are values of that type
RECURSIVE NumbersInRange(_, _)
NumbersInRange(json, f) ==
    CASE f.data_type \in {"Int32", "Int64", "UInt32", "UInt64"} ->
            json.t = "number" =>
                (ArrowMin(f.data_type) <= json.n /\ json.n <= ArrowMax(f.data_type))
      [] f.data_type = "List" ->
            json.t = "array" =>
                \A k \in 1..Len(json.arr) : NumbersInRange(json.arr[k], f.children[1])
      [] f.data_type = "Struct" ->
            json.t = "object" =>
                \A i \in 1..Len(f.children) :
                    f.children[i].name \in DOMAIN json.obj =>
                        NumbersInRange(json.obj[f.children[i].name], f.children[i])
      [] OTHER -> TRUE

\* C12: in every message decode_to_json renders, each JSON number emitted for
\* a field of an integer type lies in the value range of the Arrow integer
\* type the projection gives that field.
C12_IntegersFitArrowType ==
    (Decoded /\ Projected) =>
        \A i \in 1..Len(arrow.value) :
            arrow.value[i].name \in DOMAIN result.value.obj =>
                NumbersInRange(result.value.obj[arrow.value[i].name], arrow.value[i])

\* the Field Values of a Message Value, at any depth, whose number the
\* message that owns them does not define: <<number, owning message>>
RECURSIVE UndefinedNumbers(_, _, _)
UndefinedNumbers(ctx, full_name, fields) ==
    {<<fields[i].number, full_name>> :
        i \in {j \in 1..Len(fields) : get_field(ctx, full_name, fields[j].number) = {}}}
    \cup UNION {UndefinedNumbers(ctx, fields[i].value.ref, fields[i].value.fields) :
        i \in {j \in 1..Len(fields) : fields[j].value.tag = "Message"}}

\* C13: a Message Value that holds, at the root or at any depth, a Field
\* Value whose number its owning message does not define is not rendered:
\* decode_to_json returns a DecodeJsonError and no JSON, and the error about
\* a missing field number names such a number and its owning message.
C13_UndefinedNumberFails ==
    (result # <<>> /\ get_message(proto_schema.context, proto_schema.full_name)
        /\ UndefinedNumbers(proto_schema.context, proto_schema.full_name, data) # {}) =>
        /\ ~result.ok
        /\ result.err = "DecodeJsonError"
        /\ result.text[1] = "Missing field number" =>
              <<result.text[2], result.text[3]>> \in
                  UndefinedNumbers(proto_schema.context, proto_schema.full_name, data)

\* the fields of the Struct an Arrow field holds (none when its type is not
\* a Struct)
StructFields(f) == IF f.data_type = "Struct" THEN f.children ELSE <<>>
\* the Struct the elements of an Arrow field hold (none when it is no List)
ElementFields(f) ==
    IF f.data_type = "List" THEN StructFields(f.children[1]) ELSE <<>>

\* the keys of a JSON object are names of the given Arrow fields, and the
\* keys of an object below a key (or in the array below it) are names of the
\* fields of the Struct projected for that key
RECURSIVE KeysWithin(_, _)
KeysWithin(obj, fields) ==
    \A k \in DOMAIN obj :
        \E i \in 1..Len(fields) :
            /\ fields[i].name = k
            /\ obj[k].t = "object" =>
                  KeysWithin(obj[k].obj, StructFields(fields[i]))
            /\ obj[k].t = "array" =>
                  \A e \in 1..Len(obj[k].arr) :
                      obj[k].arr[e].t = "object" =>
                          KeysWithin(obj[k].arr[e].obj, ElementFields(fields[i]))

\* C14: the keys of every JSON object decode_to_json returns are field names
\* of the projected schema, and so are, at every depth, the keys of an
\* object rendered for a message field and the field names of the Struct
\* projected for that field.
C14_KeysWithinSchema ==
    (Decoded /\ Projected) => KeysWithin(result.value.obj, arrow.value)

\* the Field Values of the sequence that carry the number, in arrival order
Occurrences(fields, number) ==
    SelectSeq(fields, LAMBDA fv : fv.number = number)

\* for every Repeated field of the message that occurs among the Field
\* Values, the key of the field holds the array of the renderings of its
\* occurrences; the same in the messages below that are rendered as objects
RECURSIVE RepeatedInOrder(_, _, _, _)
RepeatedInOrder(ctx, full_name, fields, obj) ==
    /\ \A i \in 1..Len(ctx.messages[full_name]) :
         LET f == ctx.messages[full_name][i]
             occ == Occurrences(fields, f.number)
         IN (f.multiplicity = "Repeated" /\ Len(occ) >= 1) =>
               /\ f.name \in DOMAIN obj
               /\ obj[f.name].t = "array"
               /\ Len(obj[f.name].arr) = Len(occ)
               /\ \A k \in 1..Len(occ) :
                     obj[f.name].arr[k] = decode_field_to_json(ctx, occ[k]).value
    /\ \A i \in 1..Len(fields) :
         (/\ fields[i].value.tag = "Message"
          /\ ~try_decode_json_as_well_known_type(
                  fields[i].value.ref, fields[i].value.fields).some) =>
            RepeatedInOrder(ctx, fields[i].value.ref, fields[i].value.fields,
                            decode_field_to_json(ctx, fields[i]).value.obj)

Component(timestamp, number) ==
    LET occ == Occurrences(timestamp.fields, number) IN
    IF occ = <<>> THEN 0 ELSE occ[Len(occ)].value.n
Millis(timestamp) ==
    JsonNumber(Component(timestamp, 1) * 1000
               + TruncDiv(Component(timestamp, 2), 1000000))

\* C16: in a rendered message, every google.protobuf.Timestamp field with
\* components (s, ns) is the JSON integer s * 1000 + ns / 1000000, also when
\* a component is zero and so not in the encoded value: a singular field
\* holds the number of its last value, a repeated field the numbers of its
\* values.
C16_TimestampIsMillis ==
    Decoded =>
        \A i \in 1..Len(RootFields) :
            LET f == RootFields[i]
                occ == Occurrences(data, f.number)
            IN (f.field_type = "Message" /\ f.ref = "google.protobuf.Timestamp"
                    /\ Len(occ) >= 1) =>
                  IF f.multiplicity = "Repeated"
                  THEN result.value.obj[f.name].arr =
                           [k \in 1..Len(occ) |-> Millis(occ[k].value)]
                  ELSE result.value.obj[f.name] = Millis(occ[Len(occ)].value)

\* C17: in every JSON decode_to_json returns, the key of a field whose
\* multiplicity is Repeated or RepeatedPacked holds a JSON array, whatever
\* Field Values carried the field.
C17_RepeatedIsArray ==
    Decoded =>
        \A i \in 1..Len(RootFields) :
            (/\ RootFields[i].multiplicity \in {"Repeated", "RepeatedPacked"}
             /\ RootFields[i].name \in DOMAIN result.value.obj) =>
                result.value.obj[RootFields[i].name].t = "array"

\* C20: compilation keeps the root name it is given, the empty name for
\* try_compile, whether or not the context defines a message of that name;
\* when it does not, the projection fails with ArrowSchemaGenerationError
\* and decode_to_json fails with DecodeJsonError for every payload, and
\* neither returns a schema or a JSON value.
C20_RootNameUnchecked ==
    /\ try_compile(<<SampleSource, CommonSource>>).full_name = ""
    /\ \A name \in {"example.Person", "example.Missing"} :
          try_compile_with_full_name(name, <<SampleSource, CommonSource>>).full_name
              = name
    /\ ~get_message(proto_schema.context, proto_schema.full_name) =>
          /\ arrow # <<>> =>
                (~arrow.ok /\ arrow.err = "ArrowSchemaGenerationError"
                    /\ arrow.value = <<>>)
          /\ result # <<>> =>
                (~result.ok /\ result.err = "DecodeJsonError"
                    /\ result.value = <<>>)

\* a schema compiled by try_compile, projected and given a payload
C20_Witness ==
    /\ proto_schema.full_name = ""
    /\ arrow # <<>> /\ result # <<>>
    /\ data # <<>>
(***************************************************************************)
(* Properties of the rendering of Timestamps, of values that are not       *)
(* rendered and of singular fields (checked under SpecDecode)              *)
(***************************************************************************)
\* a Timestamp value carries a Field Value of the given number and tag
Carries(timestamp, number, tag) ==
    \E i \in 1..Len(timestamp.fields) :
        timestamp.fields[i].number = number /\ timestamp.fields[i].value.tag = tag

\* the rendering of a Timestamp value whose components are found by their
\* field numbers and whose other Field Values are rendered as those of any
\* message are
TimestampByNumber(ctx, timestamp) ==
    LET generic == decode_message_to_json(ctx, timestamp.ref, timestamp.fields, 1, <<>>)
        others == decode_message_to_json(ctx, timestamp.ref,
                      SelectSeq(timestamp.fields, LAMBDA fv : fv.number \notin {1, 2}),
                      1, <<>>)
    IN IF Carries(timestamp, 1, "Int64") /\ Carries(timestamp, 2, "Int32")
       THEN IF others.ok THEN Result_Ok(Millis(timestamp)) ELSE others
       ELSE generic

\* C23: a google.protobuf.Timestamp value is rendered as the number of
\* milliseconds exactly when it carries field 1 as an Int64 and field 2 as
\* an Int32, wherever they stand among its Field Values; otherwise it is
\* rendered as the JSON object of any message; and its other Field Values
\* are treated as those of any message (an undefined number is an error).
\* Stated for a payload that is one value of the field `created`.
C23_TimestampByFieldNumber ==
    (/\ result # <<>>
     /\ proto_schema.full_name = "example.Event"
     /\ Len(data) = 1
     /\ data[1].number = 1) =>
        LET claimed == TimestampByNumber(proto_schema.context, data[1].value) IN
        result = IF claimed.ok
                 THEN Result_Ok(JsonObject("created" :> claimed.value))
                 ELSE claimed

\* a value that is never rendered: a bytes, incomplete or unknown value, an
\* enum value without a member, or a message that holds one at any depth
RECURSIVE NotRendered(_, _)
NotRendered(ctx, v) ==
    \/ v.tag \in {"Bytes", "Incomplete", "Unknown"}
    \/ v.tag = "Enum" /\ v.n \notin DOMAIN ctx.enums[v.ref]
    \/ v.tag = "Message" /\
          \E i \in 1..Len(v.fields) : NotRendered(ctx, v.fields[i].value)

\* C24: an enum value is rendered as the name of its member; a payload that
\* holds, at the root or at any depth, an enum value without a member, a
\* bytes value, an incomplete value or an unknown value is not rendered:
\* decode_to_json returns a DecodeJsonError and no JSON, although the
\* projection of the same schema succeeds.
C24_UnrenderedValueFails ==
    (result # <<>> /\ get_message(proto_schema.context, proto_schema.full_name)) =>
        /\ (\E i \in 1..Len(data) : NotRendered(proto_schema.context, data[i].value)) =>
              (~result.ok /\ result.err = "DecodeJsonError" /\ result.value = <<>>)
        /\ (result.ok /\ "status" \in DOMAIN result.value.obj) =>
              \E n \in DOMAIN CommonEnums["example.Status"] :
                  /\ Occurrences(data, 3)[Len(Occurrences(data, 3))].value.n = n
                  /\ result.value.obj["status"] =
                         JsonString(CommonEnums["example.Status"][n])
        /\ arrow # <<>> => arrow.ok

\* C25: in a rendered message, a field of multiplicity Single or Optional
\* that occurs k > 1 times holds, at its key, the rendering of its last
\* occurrence alone: no array, nothing of the earlier occurrences.
C25_SingularLastWins ==
    Decoded =>
        \A i \in 1..Len(RootFields) :
            LET f == RootFields[i]
                occ == Occurrences(data, f.number)
            IN (f.multiplicity \in {"Single", "Optional"} /\ Len(occ) > 1) =>
                  /\ f.name \in DOMAIN result.value.obj
                  /\ result.value.obj[f.name] =
                         decode_field_to_json(proto_schema.context, occ[Len(occ)]).value

\* the message field `created` given a value rendered as an object and then
\* one rendered as a number
C25_Witness ==
    /\ Decoded
    /\ Len(data) = 2
    /\ data[1] = FieldValue(1, Timestamp(17, 0))
    /\ data[2] = FieldValue(1, Timestamp(17, 99000000))
    /\ result.value.obj = ("created" :> JsonNumber(17099))
(***************************************************************************)
(* Properties of the reference resolution without a visited set (checked   *)
(* under SpecRefs)                                                         *)
(***************************************************************************)
\* the registered schemas reached from n along references, n included
RECURSIVE ReachedWithin(_, _, _)
ReachedWithin(reg, seen, k) ==
    IF k = 0 THEN seen
    ELSE ReachedWithin(reg,
             seen \cup ({reg[m][i] : m \in seen, i \in 1..MaxRefs} \ {0}), k - 1)
ReachedFrom(reg, n) ==
    ReachedWithin([m \in Nodes |-> [i \in 1..MaxRefs |->
                      IF i <= Len(reg[m]) THEN reg[m][i] ELSE 0]],
                  {n}, Cardinality(Nodes))

\* a schema reached from n references, directly or transitively, itself
Cyclic(reg, n) ==
    \E m \in ReachedFrom(reg, n) :
        \E i \in 1..Len(reg[m]) : m \in ReachedFrom(reg, reg[m][i])

\* number of reference paths from n to m (the empty path from m to itself
\* included), in a graph without a cycle below n
RECURSIVE PathCount(_, _, _), PathCountAll(_, _, _)
PathCountAll(reg, refs, m) ==
    IF refs = <<>> THEN 0
    ELSE PathCount(reg, Head(refs), m) + PathCountAll(reg, Tail(refs), m)
PathCount(reg, n, m) ==
    (IF n = m THEN 1 ELSE 0) + PathCountAll(reg, reg[n], m)

\* number of elements of a list equal to a text
CountIn(list, text) == Cardinality({i \in 1..Len(list) : list[i] = text})

\* C29: the resolution keeps no visited set and removes no duplicate: when
\* the fetch succeeds, every schema has been fetched once per reference
\* path from the root to it and its text stands that many times in the
\* list, whose length is the number of reference paths from the root; when
\* a registry call fails, the fetch fails and no list is left; and on a
\* graph with a cycle below the root the fetch never returns a list.
C29_NoVisitedSet ==
    /\ status = "ok" =>
          /\ \A n \in Nodes :
                /\ fetched[n] = PathCount(registry, root, n)
                /\ CountIn(acc, Text(n)) = PathCount(registry, root, n)
          /\ Len(acc) = PathCount(registry, root, 1) + PathCount(registry, root, 2)
                            + PathCount(registry, root, 3)
    /\ status = "err" => (acc = <<>> /\ stack = <<>>)
    /\ Cyclic(registry, root) => status # "ok"

\* a successful fetch in which one schema is reached along four paths
C29_Witness ==
    /\ status = "ok"
    /\ \E n \in Nodes : fetched[n] = 4 /\ CountIn(acc, Text(n)) = 4
    /\ Len(acc) = 7

\* a fetch that has gone MaxDepth calls deep into a cycle
C29_CycleWitness ==
    /\ status = "run"
    /\ Cyclic(registry, root)
    /\ Len(stack) = MaxDepth
(***************************************************************************)
(* Properties of compiled_schema_of (checked under SpecCompiled)           *)
(***************************************************************************)
CompiledCalls == BagToSet(ccalls)

\* C22: compiled_schema_of never touches compiled_schemas, which stays
\* empty; it returns the error of schemas_of as it is, and otherwise what
\* the compilation of the list returns; a compile error leaves the list
\* memoized, and a compiled_schema_of(id) that begins after one has
\* returned a compile error finds the list memoized (its schemas_of makes
\* no fetch) and returns the compile error again.
C22_CompiledAnewNeverStored ==
    /\ compiled_schemas = EmptyMap
    /\ \A c \in CompiledCalls :
          /\ c.pc = "done" =>
                \/ c.ret \in {Err(e) : e \in Errors}
                \/ /\ c.id \in DOMAIN schemas
                   /\ c.ret = CompileOutcome(schemas[c.id])
          /\ c.after =>
                /\ c.hit
                /\ c.id \in DOMAIN schemas
                /\ c.pc = "done" => c.ret = Err("CompileError")

\* id 1 was fetched, its list did not compile, and a call made after that
\* has failed again
C22_Witness ==
    /\ 1 \notin raw
    /\ \E c \in CompiledCalls :
          c.id = 1 /\ c.pc = "done" /\ c.after /\ c.ret = Err("CompileError")
    /\ schemas[1] = get_all_schema_references(registry, 1)
(***************************************************************************)
(* Properties of the ingest loop (checked under SpecIngest and             *)
(* SpecIngestLive)                                                         *)
(***************************************************************************)
\* C21: whatever message the loop receives, processing it ends back at the
\* select, where the next message is received: no message ends or panics
\* the loop; and a receive error leaves the loop at the select.
C21_MessageNeverStopsLoop ==
    [][/\ (ingest # <<>> /\ ingest.pc = "process") =>
             ingest'.pc \in {"process", "select"}
       /\ (ingest # <<>> /\ ingest.pc = "select" /\ ~token) =>
             ingest'.pc \in {"select", "process"}]_vars

\* C30: once the token is cancelled while start_ingest is in its loop,
\* start_ingest returns Ok(()) at some time, also when the consumer has a
\* message every time.
C30_CancelledLoopReturnsOk ==
    (ingest # <<>> /\ token /\ ingest.pc \in {"select", "process"}) ~>
        (ingest.pc \in {"returned_ok", "finished_ok"})

\* when start_ingest has returned, the token is cancelled at some time, and
\* main then ends
ReturnLeadsToMainEnd ==
    /\ (ingest # <<>> /\ ingest.pc \in {"returned_ok", "returned_err"}) ~> token
    /\ (ingest # <<>> /\ ingest.pc \in {"finished_ok", "finished_err"}) ~>
           (main = "done")

\* the loop is left by the cancelled branch alone
LoopLeftByCancellation ==
    [][(ingest # <<>> /\ ingest.pc \in {"select", "process"}
            /\ ingest'.pc \in {"returned_ok", "returned_err"}) =>
          (token /\ ingest.pc = "select" /\ ingest'.pc = "returned_ok")]_vars

\* no message is taken from the consumer once the token is cancelled
NoMessageAfterCancel ==
    [][(ingest # <<>> /\ token /\ ingest.pc = "select") =>
          (ingest'.pc # "process" /\ ingest'.received = ingest.received)]_vars
(***************************************************************************)
(* Properties of ProtoResolver::resolve (checked under SpecResolve)        *)
(***************************************************************************)
\* the paths of the import declarations of a text, in order
DeclaredImports(sts) ==
    LET imps == SelectSeq(sts, LAMBDA st : st.kind = "import") IN
    [i \in 1..Len(imps) |-> imps[i].arg]
\* the name of the package declaration (of the last one), none when absent
DeclaredPackage(sts) ==
    LET pkgs == SelectSeq(sts, LAMBDA st : st.kind = "package") IN
    IF pkgs = <<>> THEN <<>> ELSE <<pkgs[Len(pkgs)].arg>>

\* C27: resolve returns Ok for every text, with the name of the package
\* declaration (None when there is none) and, for every declaration
\* import "<path>"; the string <path> itself, in the order of the text and
\* with duplicates, whatever whitespace stands between the keyword and the
\* quoted path, and also for a declaration in a comment.
C27_ImportsAsDeclared ==
    proto_info # <<>> =>
        /\ proto_info.ok
        /\ proto_info.value.package = DeclaredPackage(raw_schema)
        /\ proto_info.value.imports = DeclaredImports(raw_schema)
(***************************************************************************)
(* Properties of the sources of a compilation (checked under SpecSources)  *)
(***************************************************************************)
\* the import paths the resolver reports for a source
ImportsOf(source) ==
    LET imports == ProtoResolver_resolve(TextOf(source)).value.imports IN
    {imports[i] : i \in 1..Len(imports)}

\* the texts of the sources of a list
TextsOf(sources) == {TextOf(sources[i]) : i \in 1..Len(sources)}

\* every source, and the bundled text of every import of a source that is
\* a key of the table
SourcesAndBundled(sources) ==
    TextsOf(sources) \cup
    {WellKnownFiles[path] :
        path \in UNION {ImportsOf(sources[i]) : i \in 1..Len(sources)}
                 \cap DOMAIN WellKnownFiles}

StructRefs(ctx, full_name) ==
    {ctx.messages[full_name][i].ref : i \in
        {j \in 1..Len(ctx.messages[full_name]) :
            /\ ctx.messages[full_name][j].field_type = "Message"
            /\ try_map_as_well_known_type(ctx.messages[full_name][j].ref) = "None"}}
RECURSIVE TypesWithin(_, _, _)
TypesWithin(ctx, seen, k) ==
    IF k = 0 THEN seen
    ELSE TypesWithin(ctx, seen \cup UNION {StructRefs(ctx, n) : n \in seen}, k - 1)
\* the types reached from a type, itself included
TypesFrom(ctx, full_name) ==
    TypesWithin(ctx, {full_name}, Cardinality(DOMAIN ctx.messages))
\* a type reached from the root holds itself, directly or through others
ContainsItself(ps) ==
    /\ get_message(ps.context, ps.full_name)
    /\ \E n \in TypesFrom(ps.context, ps.full_name) :
          \E m \in StructRefs(ps.context, n) : n \in TypesFrom(ps.context, m)

\* C28: the projection of a root that is defined and from which no message
\* type is reached that holds itself comes to an end and returns the
\* schema; the projection of a root from which such a type is reached
\* (Timestamp fields are not followed) never returns, neither a schema nor
\* an error: the calls nest until the stack is exhausted.
C28_ProjectionEndsUnlessCyclic ==
    /\ [](projection = "ok" =>
             (~ContainsItself(proto_schema)
                 /\ ProtoSchema_to_arrow_schema(proto_schema).ok))
    /\ [](ContainsItself(proto_schema) => projection \notin {"ok", "err"})
    /\ [](projection = "overflow" => ContainsItself(proto_schema))
    /\ (get_message(proto_schema.context, proto_schema.full_name)
           /\ ~ContainsItself(proto_schema)) ~> (projection = "ok")
    /\ ContainsItself(proto_schema) ~> (projection = "overflow")

\* a root with a Timestamp field and a field of a type that has fields of
\* its own, projected
C28_Witness ==
    /\ projection = "ok"
    /\ proto_schema.full_name = "example.A"
    /\ Len(proto_schema.context.messages["example.A"]) = 2
    /\ proto_schema.context.messages["example.A"][1].ref = "google.protobuf.Timestamp"
    /\ proto_schema.context.messages["example.A"][2].ref = "example.B"
    /\ Len(proto_schema.context.messages["example.B"]) = 2

\* a root that holds a type that holds the root: the stack is exhausted
C28_CycleWitness ==
    /\ projection = "overflow"
    /\ "example.B" \in StructRefs(proto_schema.context, "example.A")
    /\ "example.A" \in StructRefs(proto_schema.context, "example.B")
====
